---- MODULE Spec2Model ----
(***************************************************************************)
(* A model of the chessgen move generator: bitboards as sets of square     *)
(* indices (bit k set <=> k in the set), the ChessBoard record with its    *)
(* piece cache, the five piece generators with their precomputed attack    *)
(* tables, apply_move, FEN parsing and printing, Zobrist hashing and the   *)
(* PerfT counter with its striped cache.                                   *)
(***************************************************************************)
EXTENDS Integers, Sequences, FiniteSets, Bags, TLC

(***************************************************************************)
(* Index, Color, Piece                                                     *)
(***************************************************************************)
ALL_FIELDS == 0 .. 63

None == -1

file(i) == i % 8

rank(i) == i \div 8

from_rank_and_file(r, f) == r * 8 + f

distance_to(a, b) == IF a > b THEN a - b ELSE b - a

index_shifted_south(i) == IF i < 8 THEN None ELSE i - 8

index_shifted_north(i) == IF i + 8 >= 64 THEN None ELSE i + 8

A1 == 0
B1 == 1
C1 == 2
D1 == 3
E1 == 4
F1 == 5
G1 == 6
H1 == 7
A2 == 8
A3 == 16
H6 == 47
H7 == 55
A8 == 56
B8 == 57
C8 == 58
D8 == 59
E8 == 60
F8 == 61
G8 == 62
H8 == 63

ColorValues == <<"White", "Black">>

Colors == {"White", "Black"}

opponent(c) == IF c = "White" THEN "Black" ELSE "White"

PieceValues == <<"King", "Queen", "Bishop", "Knight", "Rook", "Pawn">>

Pieces == {"King", "Queen", "Bishop", "Knight", "Rook", "Pawn"}

NoPiece == "None"

(***************************************************************************)
(* BitBoard: the u64 as the set of its set bits                            *)
(***************************************************************************)
EMPTY == {}

FILE_A == {i \in ALL_FIELDS : file(i) = 0}

FILE_H == {i \in ALL_FIELDS : file(i) = 7}

RANK_1 == {i \in ALL_FIELDS : rank(i) = 0}

RANK_8 == {i \in ALL_FIELDS : rank(i) = 7}

FRAME == RANK_1 \cup RANK_8 \cup FILE_A \cup FILE_H

\* state << n and state >> n on a 64-bit word
shl(b, n) == {i + n : i \in {j \in b : j + n < 64}}

shr(b, n) == {i - n : i \in {j \in b : j - n >= 0}}

bb_xor(a, b) == (a \ b) \cup (b \ a)

has_bit(b, i) == i \in b

bitscan(b) == IF b = {} THEN None ELSE CHOOSE i \in b : \A j \in b : i <= j

RECURSIVE to_indices(_)
to_indices(b) ==
    IF b = {} THEN <<>>
    ELSE LET i == bitscan(b) IN <<i>> \o to_indices(b \ {i})

shifted_north(b) == shl(b, 8)

shifted_south(b) == shr(b, 8)

shifted_east(b) == shl(b, 1) \ FILE_A

shifted_northeast(b) == shl(b, 9) \ FILE_A

shifted_southeast(b) == shr(b, 7) \ FILE_A

shifted_west(b) == shr(b, 1) \ FILE_H

shifted_southwest(b) == shr(b, 9) \ FILE_H

shifted_northwest(b) == shl(b, 7) \ FILE_H

RECURSIVE shifted_east_n(_, _)
shifted_east_n(b, n) == IF n = 0 THEN b ELSE shifted_east_n(shifted_east(b), n - 1)

RECURSIVE shifted_west_n(_, _)
shifted_west_n(b, n) == IF n = 0 THEN b ELSE shifted_west_n(shifted_west(b), n - 1)

shifted(b, dx, dy) ==
    LET v == IF dy > 0 THEN shl(b, dy * 8)
             ELSE IF dy < 0 THEN shr(b, (-dy) * 8) ELSE b
    IN  IF dx > 0 THEN shifted_east_n(v, dx)
        ELSE IF dx < 0 THEN shifted_west_n(v, -dx) ELSE v

mirrored_vertically(b) == {from_rank_and_file(7 - rank(i), file(i)) : i \in b}

mirrored_horizontally(b) == {from_rank_and_file(rank(i), 7 - file(i)) : i \in b}

mirrored_a1h8(b) == {from_rank_and_file(file(i), rank(i)) : i \in b}

A1H8 == [k \in 0 .. 14 |-> {i \in ALL_FIELDS : file(i) + 7 - rank(i) = k}]

A8H1 == [k \in 0 .. 14 |-> {i \in ALL_FIELDS : file(i) + rank(i) = k}]

(***************************************************************************)
(* u64 arithmetic used by the magic lookups                                *)
(***************************************************************************)
\* a u64 as four 16-bit limbs, least significant first
LimbBits == 16

LimbBase == 65536

\* the partial products 2^(x + y) that fall into limb k, summed (BagCardinality adds
\* the values of a function)
mul_limb(a, m, k) ==
    BagCardinality([pr \in {q \in a \X m : (q[1] + q[2]) \div LimbBits = k} |->
                       2 ^ ((pr[1] + pr[2]) % LimbBits)])

\* a.state * m.state, wrapping at 2^64: carries run up the limbs, the carry out of
\* the top limb is dropped
wrapping_mul(a, m) ==
    LET s0 == mul_limb(a, m, 0)
        s1 == mul_limb(a, m, 1) + (s0 \div LimbBase)
        s2 == mul_limb(a, m, 2) + (s1 \div LimbBase)
        s3 == mul_limb(a, m, 3) + (s2 \div LimbBase)
    IN  << s0 % LimbBase, s1 % LimbBase, s2 % LimbBase, s3 % LimbBase >>

\* a shift by 58 in place of 57
magic_index_58(product) == product[4] \div 1024

\* (product >> 57) as usize: the top seven bits of the top limb
magic_index(product) == product[4] \div 512

\* (state >> sh) as usize, for a state whose bits above sh + 6 are clear or discarded by the shift
index_shr(b, sh) ==
    LET bit_value(k, w) == IF k \in b THEN w ELSE 0
    IN  bit_value(sh, 1) + bit_value(sh + 1, 2) + bit_value(sh + 2, 4)
        + bit_value(sh + 3, 8) + bit_value(sh + 4, 16) + bit_value(sh + 5, 32)
        + bit_value(sh + 6, 64)

\* BitBoard::new(n) for n < 64
bits_of(n) == {k \in 0 .. 5 : (n \div (2 ^ k)) % 2 = 1}

Step(piece, dir) ==
    CASE dir = "N" -> shifted_north(piece)
      [] dir = "S" -> shifted_south(piece)
      [] dir = "E" -> shifted_east(piece)
      [] dir = "W" -> shifted_west(piece)
      [] dir = "NE" -> shifted_northeast(piece)
      [] dir = "NW" -> shifted_northwest(piece)
      [] dir = "SE" -> shifted_southeast(piece)
      [] dir = "SW" -> shifted_southwest(piece)

\* the table builders' loop: step, add, stop on the first blocker
RECURSIVE walk(_, _, _)
walk(piece, dir, board) ==
    IF piece = {} THEN {}
    ELSE LET next == Step(piece, dir)
         IN  next \cup (IF next \cap board # {} THEN {} ELSE walk(next, dir, board))

(***************************************************************************)
(* GeneratorRook: magic constants and precomputed tables                   *)
(***************************************************************************)
\* the hexadecimal constants of the source, written as their set bits
MAGIC_FILE ==
    << {9, 18, 27, 36, 45, 54, 63},
       {8, 17, 26, 35, 44, 53, 62},
       {7, 16, 25, 34, 43, 52, 61},
       {6, 15, 24, 33, 42, 51, 60},
       {5, 14, 23, 32, 41, 50, 59},
       {4, 13, 22, 31, 40, 49, 58},
       {3, 12, 21, 30, 39, 48, 57},
       {2, 11, 20, 29, 38, 47, 56} >>

rank_mask == [i \in ALL_FIELDS |-> {rank(i) * 8 + k : k \in 1 .. 6}]

rank_shift == [i \in ALL_FIELDS |-> rank(i) * 8 + 1]

file_a_mask == {8, 16, 24, 32, 40, 48}

file_mask == [i \in ALL_FIELDS |-> shl(file_a_mask, file(i))]

file_magic == [i \in ALL_FIELDS |-> MAGIC_FILE[file(i) + 1]]

rank_attacks ==
    [i \in ALL_FIELDS |->
        [n \in 0 .. 63 |->
            LET board == shifted(bits_of(n), 1, rank(i))
            IN  walk({i}, "W", board) \cup walk({i}, "E", board)]]

file_attacks ==
    [i \in ALL_FIELDS |->
        [n \in 0 .. 63 |->
            LET board == shifted(mirrored_a1h8(mirrored_horizontally(
                                     shifted(bits_of(n), 1, 0))), file(i), 0)
            IN  walk({i}, "N", board) \cup walk({i}, "S", board)]]

\* GeneratorRook::attacks
rook_attacks(i, all_pieces) ==
    LET state_rank == index_shr(all_pieces \cap rank_mask[i], rank_shift[i])
        state_file == magic_index(wrapping_mul(all_pieces \cap file_mask[i], file_magic[i]))
    IN  rank_attacks[i][state_rank] \cup file_attacks[i][state_file]

(***************************************************************************)
(* GeneratorBishop: magic constants and precomputed tables                 *)
(***************************************************************************)
MAGIC_A1H8 ==
    << {},
       {},
       {8, 16, 24, 32, 40, 48, 56},
       {8, 16, 24, 32, 40, 48, 56},
       {8, 16, 24, 32, 40, 48, 56},
       {8, 16, 24, 32, 40, 48, 56},
       {8, 16, 24, 32, 40, 48, 56},
       {8, 16, 24, 32, 40, 48, 56},
       {15, 23, 31, 39, 47, 55, 63},
       {22, 30, 38, 46, 54, 62},
       {29, 37, 45, 53, 61},
       {36, 44, 52, 60},
       {43, 51, 59},
       {},
       {} >>

MAGIC_A8H1 ==
    << {},
       {},
       {8, 16, 24, 32, 40, 48, 56},
       {8, 16, 24, 32, 40, 48, 56},
       {8, 16, 24, 32, 40, 48, 56},
       {8, 16, 24, 32, 40, 48, 56},
       {8, 16, 24, 32, 40, 48, 56},
       {8, 16, 24, 32, 40, 48, 56},
       {7, 15, 23, 31, 39, 47, 55},
       {6, 14, 22, 30, 38, 46, 54},
       {5, 13, 21, 29, 37, 45, 53},
       {4, 12, 20, 28, 36, 44, 52},
       {3, 11, 19, 27, 35, 43, 51},
       {},
       {} >>

a1h8_index == [i \in ALL_FIELDS |-> (file(i) + 7) - (rank(i) % 8)]

a8h1_index == [i \in ALL_FIELDS |-> file(i) + (rank(i) % 8)]

a1h8_mask == [i \in ALL_FIELDS |-> A1H8[a1h8_index[i]] \ FRAME]

a8h1_mask == [i \in ALL_FIELDS |-> A8H1[a8h1_index[i]] \ FRAME]

a1h8_magic == [i \in ALL_FIELDS |-> MAGIC_A1H8[a1h8_index[i] + 1]]

a8h1_magic == [i \in ALL_FIELDS |-> MAGIC_A8H1[a8h1_index[i] + 1]]

\* shift the diagonal until one more shift would empty it
RECURSIVE diagonal_start(_, _)
diagonal_start(diagonal, dir) ==
    IF Step(diagonal, dir) = {} THEN diagonal
    ELSE diagonal_start(Step(diagonal, dir), dir)

\* traverse the diagonal and set bits according to m
RECURSIVE diagonal_board(_, _, _)
diagonal_board(diagonal, dir, m) ==
    IF diagonal = {} THEN {}
    ELSE LET next == Step(diagonal, dir)
         IN  (IF m % 2 = 1 THEN next ELSE {}) \cup diagonal_board(next, dir, m \div 2)

a1h8_attacks ==
    [i \in ALL_FIELDS |->
        [n \in 0 .. 63 |->
            LET board == diagonal_board(diagonal_start(A1H8[a1h8_index[i]], "SW"), "NE", n) \ FRAME
            IN  walk({i}, "NE", board) \cup walk({i}, "SW", board)]]

a8h1_attacks ==
    [i \in ALL_FIELDS |->
        [n \in 0 .. 63 |->
            LET board == diagonal_board(diagonal_start(A8H1[a8h1_index[i]], "NW"), "SE", n) \ FRAME
            IN  walk({i}, "NW", board) \cup walk({i}, "SE", board)]]

\* GeneratorBishop::attacks
bishop_attacks(i, all_pieces) ==
    LET index_a1h8 == magic_index(wrapping_mul(all_pieces \cap a1h8_mask[i], a1h8_magic[i]))
        index_a8h1 == magic_index(wrapping_mul(all_pieces \cap a8h1_mask[i], a8h1_magic[i]))
    IN  a1h8_attacks[i][index_a1h8] \cup a8h1_attacks[i][index_a8h1]

(***************************************************************************)
(* GeneratorKing, GeneratorKnight, GeneratorPawn: attack caches            *)
(***************************************************************************)
king_attacks_cache ==
    [i \in ALL_FIELDS |->
        shifted({i}, 1, -1) \cup shifted({i}, 1, 0) \cup shifted({i}, 1, 1)
        \cup shifted({i}, 0, -1) \cup shifted({i}, 0, 1)
        \cup shifted({i}, -1, -1) \cup shifted({i}, -1, 0) \cup shifted({i}, -1, 1)]

knight_attacks_cache ==
    [i \in ALL_FIELDS |->
        shifted({i}, 2, 1) \cup shifted({i}, 2, -1) \cup shifted({i}, 1, 2)
        \cup shifted({i}, -1, 2) \cup shifted({i}, -2, 1) \cup shifted({i}, -2, -1)
        \cup shifted({i}, -1, -2) \cup shifted({i}, 1, -2)]

pawn_attacks_cache ==
    [c \in Colors |->
        [i \in ALL_FIELDS |->
            IF c = "White" THEN shifted_northeast({i}) \cup shifted_northwest({i})
            ELSE shifted_southeast({i}) \cup shifted_southwest({i})]]

(***************************************************************************)
(* ChessBoard                                                              *)
(***************************************************************************)
\* Option<(Color, Piece)>: <<>> is None, <<c, p>> is Some((c, p))
NoEntry == <<>>

CastlingSides == {"King", "Queen"}

\* the (colour, kind) written last for square i by the loops of new_piece_cache: the
\* loops run over Color::VALUES, then Piece::VALUES, and a later write overwrites
RECURSIVE last_piece_with_bit(_, _, _, _)
last_piece_with_bit(pieces, i, ic, ip) ==
    IF ic < 1 THEN NoEntry
    ELSE IF ip < 1 THEN last_piece_with_bit(pieces, i, ic - 1, Len(PieceValues))
    ELSE IF has_bit(pieces[ColorValues[ic]][PieceValues[ip]], i)
    THEN <<ColorValues[ic], PieceValues[ip]>>
    ELSE last_piece_with_bit(pieces, i, ic, ip - 1)

new_piece_cache(pieces) ==
    [i \in ALL_FIELDS |-> last_piece_with_bit(pieces, i, Len(ColorValues), Len(PieceValues))]

EmptyPieces == [c \in Colors |-> [p \in Pieces |-> EMPTY]]

pieces_of(board, color) == UNION {board.pieces[color][p] : p \in Pieces}

all_pieces(board) == pieces_of(board, "White") \cup pieces_of(board, "Black")

my_pieces(board) == pieces_of(board, board.next_move)

opponent_pieces(board) == pieces_of(board, opponent(board.next_move))

board_to_attack(board) == ALL_FIELDS \ my_pieces(board)

my_king(board) == bitscan(board.pieces[board.next_move]["King"])

opponent_king(board) == bitscan(board.pieces[opponent(board.next_move)]["King"])

piece_at(board, i) == board.piece_cache[i]

new_move(from, to, promotion) == [from |-> from, to |-> to, promotion |-> promotion]

\* variant of first_piece_with_bit that finds no captured piece
no_piece_with_bit(pieces, c, i, k) == NoPiece

\* the first kind, in Piece::VALUES order, whose bitboard of that colour has the bit
RECURSIVE first_piece_with_bit(_, _, _, _)
first_piece_with_bit(pieces, c, i, k) ==
    IF k > Len(PieceValues) THEN NoPiece
    ELSE IF has_bit(pieces[c][PieceValues[k]], i) THEN PieceValues[k]
    ELSE first_piece_with_bit(pieces, c, i, k + 1)

\* variant of castling_after_capture that leaves the flags as they are
castling_kept_after_capture(castling, color, is_capture, to) == castling

\* the capture clears the castling flag of a rook corner it lands on
castling_after_capture(castling, color, is_capture, to) ==
    LET opp == opponent(color)
        opp_rank == IF color = "White" THEN 7 ELSE 0
    IN  IF is_capture /\ to = from_rank_and_file(opp_rank, 0)
        THEN [castling EXCEPT ![opp]["Queen"] = FALSE]
        ELSE IF is_capture /\ to = from_rank_and_file(opp_rank, 7)
        THEN [castling EXCEPT ![opp]["King"] = FALSE]
        ELSE castling

\* variant of cache_after_promotion that leaves the pawn in the cache
cache_not_promoted(cache, to, color, promotion) == cache

\* piece_cache[m.to] = Some((color, promotion))
cache_after_promotion(cache, to, color, promotion) == [cache EXCEPT ![to] = <<color, promotion>>]

\* a pawn advance of one rank or a capture in place of the advance of two
pawn_moved_any_distance(piece, m) == piece = "Pawn" /\ distance_to(m.to, m.from) > 6

\* Piece::Pawn and m.to.distance_to(m.from) > 10
pawn_moved_two_ranks(piece, m) == piece = "Pawn" /\ distance_to(m.to, m.from) > 10

\* the target square itself in place of the square behind it
en_passant_victim_on_target(color, to) == to

\* m.to.shifted_south() for a White mover, m.to.shifted_north() for a Black one
en_passant_victim(color, to) ==
    IF color = "White" THEN index_shifted_south(to) ELSE index_shifted_north(to)

\* the clock reset by pawn moves alone
half_move_clock_kept_on_capture(clock, piece, is_enpassant, is_capture) ==
    IF piece = "Pawn" THEN 0 ELSE clock + 1

\* half_move_clock + 1 at the start, 0 in the pawn, en-passant and capture branches
half_move_clock_after(clock, piece, is_enpassant, is_capture) ==
    IF piece = "Pawn" \/ is_enpassant \/ is_capture THEN 0 ELSE clock + 1

\* the piece set down on m.to and left on m.from as well
make_the_move_copying(pieces, color, piece, m) ==
    [pieces EXCEPT ![color][piece] = @ \cup {m.to}]

\* pieces[next_move][piece] ^= m.from | m.to
make_the_move(pieces, color, piece, m) ==
    [pieces EXCEPT ![color][piece] = bb_xor(@, {m.from} \cup {m.to})]

\* the flags of the two corners exchanged
castling_after_rook_move_swapped(castling, color, from) ==
    LET home_rank == IF color = "White" THEN 0 ELSE 7
    IN  IF from = from_rank_and_file(home_rank, 0)
        THEN [castling EXCEPT ![color]["King"] = FALSE]
        ELSE IF from = from_rank_and_file(home_rank, 7)
        THEN [castling EXCEPT ![color]["Queen"] = FALSE]
        ELSE castling

\* Piece::Rook: a move from A1 (A8) clears the queen-side flag, from H1 (H8) the king-side
castling_after_rook_move(castling, color, from) ==
    LET home_rank == IF color = "White" THEN 0 ELSE 7
    IN  IF from = from_rank_and_file(home_rank, 0)
        THEN [castling EXCEPT ![color]["Queen"] = FALSE]
        ELSE IF from = from_rank_and_file(home_rank, 7)
        THEN [castling EXCEPT ![color]["King"] = FALSE]
        ELSE castling

\* the rook moved for the king's step to the g-file alone
king_castles_short(piece, m, home_rank) ==
    /\ piece = "King"
    /\ m.from = from_rank_and_file(home_rank, 4)
    /\ m.to = from_rank_and_file(home_rank, 6)

\* Piece::King with m.from == Index::E1 (E8) and m.to one of C1, G1 (C8, G8)
king_castles(piece, m, home_rank) ==
    /\ piece = "King"
    /\ m.from = from_rank_and_file(home_rank, 4)
    /\ m.to \in {from_rank_and_file(home_rank, 2), from_rank_and_file(home_rank, 6)}

apply_move(self, m) ==
    LET piece == piece_at(self, m.from)[2]
        color == self.next_move
        opp == opponent(self.next_move)
        is_capture == (opponent_pieces(self) \cap {m.to}) # EMPTY
        is_enpassant == piece = "Pawn" /\ self.en_passant_target # None
                        /\ m.to = self.en_passant_target
        \* make the move
        pieces1 == make_the_move(self.pieces, color, piece, m)
        cache1 == [[self.piece_cache EXCEPT ![m.from] = NoEntry] EXCEPT ![m.to] = <<color, piece>>]
        home_rank == IF color = "White" THEN 0 ELSE 7
        \* Piece::Rook
        castling_rook == castling_after_rook_move(self.castling_options, color, m.from)
        \* Piece::King
        castling_king == [self.castling_options EXCEPT ![color] = [s \in CastlingSides |-> FALSE]]
        rook_from == IF m.to = from_rank_and_file(home_rank, 2) THEN from_rank_and_file(home_rank, 0)
                     ELSE from_rank_and_file(home_rank, 7)
        rook_to == IF m.to = from_rank_and_file(home_rank, 2) THEN from_rank_and_file(home_rank, 3)
                   ELSE from_rank_and_file(home_rank, 5)
        is_castling == king_castles(piece, m, home_rank)
        \* Piece::Pawn
        is_double == pawn_moved_two_ranks(piece, m)
        is_promotion == piece = "Pawn" /\ ~is_double /\ m.promotion # NoPiece
        pieces2 ==
            IF is_castling
            THEN [pieces1 EXCEPT ![color]["Rook"] = bb_xor(@, {rook_from} \cup {rook_to})]
            ELSE IF is_promotion
            THEN [[pieces1 EXCEPT ![color]["Pawn"] = bb_xor(@, {m.to})]
                     EXCEPT ![color][m.promotion] = bb_xor(@, {m.to})]
            ELSE pieces1
        cache2 ==
            IF is_castling
            THEN [[cache1 EXCEPT ![rook_from] = NoEntry] EXCEPT ![rook_to] = <<color, "Rook">>]
            ELSE IF is_promotion
            THEN cache_after_promotion(cache1, m.to, color, m.promotion)
            ELSE cache1
        castling2 ==
            IF piece = "Rook" THEN castling_rook
            ELSE IF piece = "King" THEN castling_king
            ELSE self.castling_options
        en_passant_target ==
            IF is_double
            THEN (IF color = "White" THEN index_shifted_north(m.from)
                  ELSE index_shifted_south(m.from))
            ELSE None
        \* en-passant capture
        victim == en_passant_victim(color, m.to)
        pieces3 ==
            IF is_enpassant
            THEN [pieces2 EXCEPT ![opp]["Pawn"] = bb_xor(@, {victim})]
            ELSE pieces2
        cache3 == IF is_enpassant THEN [cache2 EXCEPT ![victim] = NoEntry] ELSE cache2
        \* capture
        captured == first_piece_with_bit(pieces3, opp, m.to, 1)
        pieces4 ==
            IF is_capture /\ captured # NoPiece
            THEN [pieces3 EXCEPT ![opp][captured] = bb_xor(@, {m.to})]
            ELSE pieces3
        castling3 == castling_after_capture(castling2, color, is_capture, m.to)
        half_move_clock ==
            half_move_clock_after(self.half_move_clock, piece, is_enpassant, is_capture)
        next_move == opponent(self.next_move)
        full_move_number ==
            IF next_move = "Black" THEN self.full_move_number + 1
            ELSE self.full_move_number
    IN  [pieces |-> pieces4,
         next_move |-> next_move,
         castling_options |-> castling3,
         en_passant_target |-> en_passant_target,
         half_move_clock |-> half_move_clock,
         full_move_number |-> full_move_number,
         piece_cache |-> cache3]

(***************************************************************************)
(* Generators: attacks and pseudo-legal moves in emission order            *)
(***************************************************************************)
RECURSIVE Flatten(_)
Flatten(ss) == IF ss = <<>> THEN <<>> ELSE Head(ss) \o Flatten(Tail(ss))

\* one Move per set bit of targets, lowest bit first (the bitpop loop)
moves_to(from, targets) ==
    LET ts == to_indices(targets)
    IN  [k \in 1 .. Len(ts) |-> new_move(from, ts[k], NoPiece)]

rook_generate_attacks(board, color) ==
    LET all == all_pieces(board)
    IN  UNION {rook_attacks(i, all) : i \in board.pieces[color]["Rook"] \cup board.pieces[color]["Queen"]}

slider_moves_of(board, p, all, available, straight) ==
    LET from == to_indices(board.pieces[board.next_move][p])
    IN  Flatten([k \in 1 .. Len(from) |->
                    moves_to(from[k],
                             (IF straight THEN rook_attacks(from[k], all)
                              ELSE bishop_attacks(from[k], all)) \cap available)])

rook_generate_moves(board) ==
    LET all == all_pieces(board)
        board_available == board_to_attack(board)
    IN  slider_moves_of(board, "Rook", all, board_available, TRUE)
        \o slider_moves_of(board, "Queen", all, board_available, TRUE)

bishop_generate_attacks(board, color) ==
    LET all == all_pieces(board)
    IN  UNION {bishop_attacks(i, all) : i \in board.pieces[color]["Bishop"] \cup board.pieces[color]["Queen"]}

bishop_generate_moves(board) ==
    LET all == all_pieces(board)
        board_available == board_to_attack(board)
    IN  slider_moves_of(board, "Bishop", all, board_available, FALSE)
        \o slider_moves_of(board, "Queen", all, board_available, FALSE)

knight_generate_attacks(board, color) ==
    UNION {knight_attacks_cache[i] : i \in board.pieces[color]["Knight"]}

knight_generate_moves(board) ==
    LET from == to_indices(board.pieces[board.next_move]["Knight"])
        available == board_to_attack(board)
    IN  Flatten([k \in 1 .. Len(from) |->
                    moves_to(from[k], knight_attacks_cache[from[k]] \cap available)])

pawn_generate_attacks(board, color) ==
    LET b == board.pieces[color]["Pawn"]
    IN  IF color = "White" THEN shifted_northeast(b) \cup shifted_northwest(b)
        ELSE shifted_southeast(b) \cup shifted_southwest(b)

\* the plain move for every destination
pawn_emit_plain(from, to) == << new_move(from, to, NoPiece) >>

\* the four promotions or the plain move, for one destination
pawn_emit(from, to) ==
    IF to > H7 \/ to < A2
    THEN << new_move(from, to, "Bishop"), new_move(from, to, "Knight"),
            new_move(from, to, "Queen"), new_move(from, to, "Rook") >>
    ELSE << new_move(from, to, NoPiece) >>

pawn_moves_from(board, from, empty_board) ==
    LET b == {from}
        white == board.next_move = "White"
        single == IF white THEN shifted_north(b) \cap empty_board
                  ELSE shifted_south(b) \cap empty_board
        double == IF white
                  THEN (IF from < A3 THEN shifted_north(single) \cap empty_board ELSE {})
                  ELSE (IF from > H6 THEN shifted_south(single) \cap empty_board ELSE {})
        attacks == IF white THEN shifted_northeast(b) \cup shifted_northwest(b)
                   ELSE shifted_southeast(b) \cup shifted_southwest(b)
        moves == single \cup double \cup (attacks \cap opponent_pieces(board))
        ts == to_indices(moves)
        ep == IF board.en_passant_target # None
              THEN attacks \cap {board.en_passant_target} ELSE {}
    IN  Flatten([k \in 1 .. Len(ts) |-> pawn_emit(from, ts[k])])
        \o (IF ep # {} THEN << new_move(from, bitscan(ep), NoPiece) >> ELSE <<>>)

pawn_generate_moves(board) ==
    LET empty_board == ALL_FIELDS \ all_pieces(board)
        from == to_indices(board.pieces[board.next_move]["Pawn"])
    IN  Flatten([k \in 1 .. Len(from) |-> pawn_moves_from(board, from[k], empty_board)])

king_generate_attacks(board, color) ==
    LET i == bitscan(board.pieces[color]["King"])
    IN  IF i # None THEN king_attacks_cache[i] ELSE EMPTY

is_bitmask_under_attack(board, color, b) ==
    \/ rook_generate_attacks(board, color) \cap b # EMPTY
    \/ bishop_generate_attacks(board, color) \cap b # EMPTY
    \/ knight_generate_attacks(board, color) \cap b # EMPTY
    \/ pawn_generate_attacks(board, color) \cap b # EMPTY
    \/ king_generate_attacks(board, color) \cap b # EMPTY

WHITE_CASTLING_OO_EMPTY == {F1, G1}
WHITE_CASTLING_OO_ATTACKS == {E1, F1, G1}
WHITE_CASTLING_OOO_EMPTY == {B1, C1, D1}
WHITE_CASTLING_OOO_ATTACKS == {C1, D1, E1}
BLACK_CASTLING_OO_EMPTY == {F8, G8}
BLACK_CASTLING_OO_ATTACKS == {E8, F8, G8}
BLACK_CASTLING_OOO_EMPTY == {B8, C8, D8}
BLACK_CASTLING_OOO_ATTACKS == {C8, D8, E8}

\* castling with the attack test left out
castling_move_through_check(board, from, side, empty_mask, attacks_mask, to) ==
    IF /\ board.castling_options[board.next_move][side]
       /\ (all_pieces(board) \cap empty_mask) = EMPTY
    THEN << new_move(from, to, NoPiece) >>
    ELSE <<>>

castling_move(board, from, side, empty_mask, attacks_mask, to) ==
    IF /\ board.castling_options[board.next_move][side]
       /\ (all_pieces(board) \cap empty_mask) = EMPTY
       /\ ~is_bitmask_under_attack(board, opponent(board.next_move), attacks_mask)
    THEN << new_move(from, to, NoPiece) >>
    ELSE <<>>

king_generate_moves(board) ==
    LET from == bitscan(board.pieces[board.next_move]["King"])
    IN  IF from = None THEN <<>>
        ELSE moves_to(from, king_attacks_cache[from] \cap board_to_attack(board))
             \o (IF board.next_move = "White"
                 THEN castling_move(board, from, "King", WHITE_CASTLING_OO_EMPTY,
                                    WHITE_CASTLING_OO_ATTACKS, G1)
                      \o castling_move(board, from, "Queen", WHITE_CASTLING_OOO_EMPTY,
                                       WHITE_CASTLING_OOO_ATTACKS, C1)
                 ELSE castling_move(board, from, "King", BLACK_CASTLING_OO_EMPTY,
                                    BLACK_CASTLING_OO_ATTACKS, G8)
                      \o castling_move(board, from, "Queen", BLACK_CASTLING_OOO_EMPTY,
                                       BLACK_CASTLING_OOO_ATTACKS, C8))

(***************************************************************************)
(* Generator                                                               *)
(***************************************************************************)
attacks(board, color) ==
    king_generate_attacks(board, color)
    \cup knight_generate_attacks(board, color)
    \cup pawn_generate_attacks(board, color)
    \cup rook_generate_attacks(board, color)
    \cup bishop_generate_attacks(board, color)

\* the knights' moves ahead of the pawns'
moves_knights_before_pawns(board) ==
    rook_generate_moves(board)
    \o bishop_generate_moves(board)
    \o knight_generate_moves(board)
    \o pawn_generate_moves(board)
    \o king_generate_moves(board)

moves(board) ==
    rook_generate_moves(board)
    \o bishop_generate_moves(board)
    \o pawn_generate_moves(board)
    \o knight_generate_moves(board)
    \o king_generate_moves(board)

\* the attack table of the pawns' own colour in place of the king's colour
pawn_checks_own_table(board, king) ==
    board.pieces[board.next_move]["Pawn"] \cap pawn_attacks_cache[board.next_move][king] # EMPTY

\* pieces[Piece::Pawn] & attacks_cache[board.next_move.opponent()][king] != EMPTY
pawn_checks(board, king) ==
    board.pieces[board.next_move]["Pawn"]
        \cap pawn_attacks_cache[opponent(board.next_move)][king] # EMPTY

is_opponent_king_under_check(board) ==
    LET king == opponent_king(board)
        pieces == board.pieces[board.next_move]
        all == all_pieces(board)
        rooks == pieces["Queen"] \cup pieces["Rook"]
        bishops == pieces["Queen"] \cup pieces["Bishop"]
    IN  IF king = None THEN FALSE
        ELSE \/ pawn_checks(board, king)
             \/ pieces["Knight"] \cap knight_attacks_cache[king] # EMPTY
             \/ pieces["King"] \cap king_attacks_cache[king] # EMPTY
             \/ rank_attacks[king][index_shr(all \cap rank_mask[king], rank_shift[king])]
                    \cap rooks # EMPTY
             \/ file_attacks[king][magic_index(wrapping_mul(all \cap file_mask[king],
                                                          file_magic[king]))]
                    \cap rooks # EMPTY
             \/ a8h1_attacks[king][magic_index(wrapping_mul(all \cap a8h1_mask[king],
                                                          a8h1_magic[king]))]
                    \cap bishops # EMPTY
             \/ a1h8_attacks[king][magic_index(wrapping_mul(all \cap a1h8_mask[king],
                                                          a1h8_magic[king]))]
                    \cap bishops # EMPTY

\* the check test made on the position before the move
legal_moves_tested_before(board) ==
    SelectSeq(moves(board), LAMBDA m : ~is_opponent_king_under_check(board))

\* variant of legal_moves without the check test
legal_moves_unfiltered(board) == moves(board)

legal_moves(board) ==
    SelectSeq(moves(board), LAMBDA m : ~is_opponent_king_under_check(apply_move(board, m)))

(***************************************************************************)
(* Characters, Piece::from_char / to_char, Color::from_char, Index strings *)
(***************************************************************************)
Digits == <<"0", "1", "2", "3", "4", "5", "6", "7", "8", "9">>

FileChars == <<"a", "b", "c", "d", "e", "f", "g", "h">>

UpperPieceChars == [c \in {"K", "Q", "B", "N", "R", "P"} |->
                       CASE c = "K" -> "k" [] c = "Q" -> "q" [] c = "B" -> "b"
                         [] c = "N" -> "n" [] c = "R" -> "r" [] c = "P" -> "p"]

UpperChars == {"A", "B", "C", "D", "E", "F", "G", "H", "K", "N", "P", "Q", "R", "W"}

is_ascii_digit(c) == \E d \in 1 .. 10 : Digits[d] = c

digit_value(c) == (CHOOSE d \in 1 .. 10 : Digits[d] = c) - 1

\* char::is_lowercase on the characters a FEN or a move string is made of
is_lowercase(c) == ~is_ascii_digit(c) /\ c \notin UpperChars /\ c \notin {" ", "/", "-"}

to_ascii_lowercase(c) == IF c \in DOMAIN UpperPieceChars THEN UpperPieceChars[c] ELSE c

PieceOfChar == [c \in {"k", "q", "b", "n", "r", "p"} |->
                   CASE c = "k" -> "King" [] c = "q" -> "Queen" [] c = "b" -> "Bishop"
                     [] c = "n" -> "Knight" [] c = "r" -> "Rook" [] c = "p" -> "Pawn"]

\* Piece::from_char: <<>> is Err, <<color, piece>> is Ok
piece_from_char(p) ==
    LET c == IF is_lowercase(p) THEN "Black" ELSE "White"
        l == to_ascii_lowercase(p)
    IN  IF l \in DOMAIN PieceOfChar THEN <<c, PieceOfChar[l]>> ELSE <<>>

piece_to_char(piece, color) ==
    LET c == CHOOSE l \in DOMAIN PieceOfChar : PieceOfChar[l] = piece
    IN  IF color = "White" THEN CHOOSE u \in DOMAIN UpperPieceChars : UpperPieceChars[u] = c
        ELSE c

\* Color::from_char: "Err" when the character is no colour
color_from_char(c) ==
    IF c \in {"w", "W"} THEN "White"
    ELSE IF c \in {"b", "B"} THEN "Black" ELSE "Err"

color_to_string(c) == IF c = "White" THEN <<"w">> ELSE <<"b">>

\* Index::from_string on a sequence of characters: -2 is Err
IndexErr == -2

index_from_string(s) ==
    IF Len(s) # 2 THEN IndexErr
    ELSE LET lower == [k \in 1 .. 2 |->
                          IF s[k] \in {"A", "B", "C", "D", "E", "F", "G", "H"}
                          THEN FileChars[CHOOSE f \in 1 .. 8 :
                                   <<"A", "B", "C", "D", "E", "F", "G", "H">>[f] = s[k]]
                          ELSE s[k]]
         IN  IF ~(\E f \in 1 .. 8 : FileChars[f] = lower[1]) THEN IndexErr
             ELSE IF ~(is_ascii_digit(lower[2]) /\ digit_value(lower[2]) \in 1 .. 8)
             THEN IndexErr
             ELSE ((CHOOSE f \in 1 .. 8 : FileChars[f] = lower[1]) - 1)
                  + (digit_value(lower[2]) - 1) * 8

\* "{}" of a usize
RECURSIVE usize_to_string(_)
usize_to_string(n) ==
    IF n < 10 THEN << Digits[n + 1] >>
    ELSE usize_to_string(n \div 10) \o << Digits[(n % 10) + 1] >>

index_to_string(i) == << FileChars[file(i) + 1] >> \o usize_to_string(1 + rank(i))

(***************************************************************************)
(* ChessBoard::from_fen and ChessBoard::to_fen on sequences of characters  *)
(***************************************************************************)
char_at(chars, i) == chars[i + 1]

shift_pieces(pieces, size) == [c \in Colors |-> [p \in Pieces |-> shl(pieces[c][p], size)]]

\* one iteration of the placement loop, on the character at index k
fen_pieces_step(chars, st, k) ==
    LET c == char_at(chars, k)
    IN  IF c = " " THEN [st EXCEPT !.done = TRUE, !.i = k + 1]
        ELSE IF c = "/" THEN [st EXCEPT !.i = k + 1]
        ELSE IF is_ascii_digit(c)
        THEN [st EXCEPT !.i = k + 1, !.pieces = shift_pieces(@, digit_value(c))]
        ELSE LET cp == piece_from_char(c)
                 sh == shift_pieces(st.pieces, 1)
             IN  IF cp = <<>> THEN [st EXCEPT !.err = TRUE, !.i = k + 1]
                 ELSE [st EXCEPT !.i = k + 1,
                                 !.pieces = [sh EXCEPT ![cp[1]][cp[2]] = @ \cup {A1}]]

\* the placement loop over the characters lo .. hi - 1, until the space or an error:
\* [err, done, i, pieces]. The range is halved so that the evaluation stays shallow.
RECURSIVE fen_pieces(_, _, _, _)
fen_pieces(chars, st, lo, hi) ==
    IF st.err \/ st.done \/ lo >= hi THEN st
    ELSE IF hi - lo = 1 THEN fen_pieces_step(chars, st, lo)
    ELSE LET mid == (lo + hi) \div 2
         IN  fen_pieces(chars, fen_pieces(chars, st, lo, mid), mid, hi)

\* the castling loop: [err, i, castling]
RECURSIVE fen_castling(_, _, _)
fen_castling(chars, i, castling) ==
    IF i >= Len(chars) THEN [err |-> FALSE, i |-> i, castling |-> castling]
    ELSE LET c == char_at(chars, i)
         IN  IF c = " " THEN [err |-> FALSE, i |-> i + 1, castling |-> castling]
             ELSE IF c = "-" THEN fen_castling(chars, i + 1, castling)
             ELSE LET cp == piece_from_char(c)
                  IN  IF cp = <<>> \/ cp[2] \notin CastlingSides
                      THEN [err |-> TRUE, i |-> i + 1, castling |-> castling]
                      ELSE fen_castling(chars, i + 1, [castling EXCEPT ![cp[1]][cp[2]] = TRUE])

\* the en-passant loop: [i, notation]
RECURSIVE fen_notation(_, _, _)
fen_notation(chars, i, notation) ==
    IF i >= Len(chars) THEN [i |-> i, notation |-> notation]
    ELSE LET c == char_at(chars, i)
         IN  IF c = " " THEN [i |-> i + 1, notation |-> notation]
             ELSE IF c = "-" THEN fen_notation(chars, i + 1, notation)
             ELSE fen_notation(chars, i + 1, Append(notation, c))

\* the two number loops: [err, i, n]
RECURSIVE fen_number(_, _, _)
fen_number(chars, i, n) ==
    IF i >= Len(chars) THEN [err |-> FALSE, i |-> i, n |-> n]
    ELSE LET c == char_at(chars, i)
         IN  IF c = " " THEN [err |-> FALSE, i |-> i + 1, n |-> n]
             ELSE IF c = "-" THEN fen_number(chars, i + 1, n)
             ELSE IF is_ascii_digit(c) THEN fen_number(chars, i + 1, n * 10 + digit_value(c))
             ELSE [err |-> TRUE, i |-> i + 1, n |-> n]

\* fix castling - rooks, then kings
fix_castling(castling, pieces) ==
    [c \in Colors |->
        LET r == IF c = "White" THEN 0 ELSE 7
            king_home == has_bit(pieces[c]["King"], from_rank_and_file(r, 4))
        IN  [s \in CastlingSides |->
                /\ castling[c][s]
                /\ has_bit(pieces[c]["Rook"], from_rank_and_file(r, IF s = "Queen" THEN 0 ELSE 7))
                /\ king_home]]

FenErr == [ok |-> FALSE]

from_fen(chars) ==
    IF Len(chars) < 15 THEN FenErr
    ELSE
    LET p == fen_pieces(chars, [err |-> FALSE, done |-> FALSE, i |-> 0, pieces |-> EmptyPieces],
                        0, Len(chars))
        pieces == [c \in Colors |-> [k \in Pieces |-> mirrored_horizontally(p.pieces[c][k])]]
        \* next move
        has_color == p.i < Len(chars)
        color == IF has_color THEN color_from_char(char_at(chars, p.i)) ELSE "White"
        i1 == IF has_color THEN p.i + 1 ELSE p.i
        \* castling
        ca == fen_castling(chars, i1 + 1, [c \in Colors |-> [s \in CastlingSides |-> TRUE]])
        \* enPassant
        ep == fen_notation(chars, ca.i, <<>>)
        target == IF ep.notation # <<>> THEN index_from_string(ep.notation) ELSE None
        \* half move clock, full move number
        hm == fen_number(chars, ep.i, 0)
        fm == fen_number(chars, hm.i, 0)
    IN  IF p.err \/ color = "Err" THEN FenErr
        ELSE IF ca.err THEN FenErr
        ELSE IF target = IndexErr THEN FenErr
        ELSE IF hm.err THEN FenErr
        ELSE IF fm.err THEN FenErr
        ELSE [ok |-> TRUE,
              board |-> [pieces |-> pieces,
                         next_move |-> color,
                         castling_options |-> fix_castling(ca.castling, pieces),
                         en_passant_target |-> target,
                         half_move_clock |-> IF hm.n > 0 THEN hm.n ELSE 0,
                         full_move_number |-> IF fm.n > 0 THEN fm.n ELSE 1,
                         piece_cache |-> new_piece_cache(pieces)]]

\* the character of the first (colour, kind), in VALUES order, whose mirrored board has bit i
RECURSIVE fen_find(_, _, _, _)
fen_find(pieces, i, ic, ip) ==
    IF ic > Len(ColorValues) THEN ""
    ELSE IF ip > Len(PieceValues) THEN fen_find(pieces, i, ic + 1, 1)
    ELSE IF has_bit(mirrored_vertically(pieces[ColorValues[ic]][PieceValues[ip]]), i)
    THEN piece_to_char(PieceValues[ip], ColorValues[ic])
    ELSE fen_find(pieces, i, ic, ip + 1)

output_spaces(spaces) == IF spaces > 0 THEN usize_to_string(spaces) ELSE <<>>

\* the placement loop of to_fen for the squares i .. hi - 1 of one row, with the run of
\* empty squares so far; the run is written out at the end of the row
RECURSIVE fen_row(_, _, _, _)
fen_row(pieces, i, hi, spaces) ==
    IF i = hi THEN output_spaces(spaces)
    ELSE LET c == fen_find(pieces, i, 1, 1)
         IN  IF c # "" THEN output_spaces(spaces) \o <<c>> \o fen_row(pieces, i + 1, hi, 0)
             ELSE fen_row(pieces, i + 1, hi, spaces + 1)

\* the loop writes "/" and the pending run whenever i > 0 and i % 8 = 0, so each row
\* of eight squares starts with no pending run
fen_placement(pieces) ==
    fen_row(pieces, 0, 8, 0) \o <<"/">> \o fen_row(pieces, 8, 16, 0) \o <<"/">>
    \o fen_row(pieces, 16, 24, 0) \o <<"/">> \o fen_row(pieces, 24, 32, 0) \o <<"/">>
    \o fen_row(pieces, 32, 40, 0) \o <<"/">> \o fen_row(pieces, 40, 48, 0) \o <<"/">>
    \o fen_row(pieces, 48, 56, 0) \o <<"/">> \o fen_row(pieces, 56, 64, 0)

fen_castling_out(castling) ==
    LET one(c, s) == IF castling[c][s] THEN << piece_to_char(s, c) >> ELSE <<>>
        all == one("White", "King") \o one("White", "Queen")
               \o one("Black", "King") \o one("Black", "Queen")
    IN  IF all = <<>> THEN <<"-">> ELSE all

to_fen(board) ==
    fen_placement(board.pieces)
    \o <<" ">> \o color_to_string(board.next_move) \o <<" ">>
    \o fen_castling_out(board.castling_options) \o <<" ">>
    \o (IF board.en_passant_target # None
        THEN index_to_string(board.en_passant_target) \o <<" ">>
        ELSE <<"-", " ">>)
    \o usize_to_string(board.half_move_clock) \o <<" ">>
    \o usize_to_string(board.full_move_number)

(***************************************************************************)
(* Zobrist                                                                 *)
(***************************************************************************)
\* Zobrist::new draws 1 + 2 * 6 * 64 + 64 + 2 * 6 keys of 64 bits from the generator
\* seeded with 13: side, pieces[c][p][i], en_passant[i], castling[c][p]. The values
\* are those of the external generator; a key is written here as the one-element
\* set of its number in drawing order, so that hash ^= key is bb_xor and the keys
\* are independent: two hashes are equal exactly when the same keys went into them.
color_index(c) == IF c = "White" THEN 0 ELSE 1

piece_index(p) == CHOOSE k \in 0..5 : PieceValues[k + 1] = p

zobrist_side == {0}

zobrist_pieces(c, p, i) == {1 + (color_index(c) * 6 + piece_index(p)) * 64 + i}

zobrist_en_passant(i) == {769 + i}

zobrist_castling(c, p) == {833 + color_index(c) * 6 + piece_index(p)}

\* the while-let bitpop loop of hash over one bitboard
RECURSIVE hash_bitboard(_, _, _, _)
hash_bitboard(hash, pieces, c, p) ==
    IF pieces = EMPTY THEN hash
    ELSE LET i == bitscan(pieces)
         IN  hash_bitboard(bb_xor(hash, zobrist_pieces(c, p, i)), pieces \ {i}, c, p)

\* the two nested for_each loops of hash over Color::VALUES and Piece::VALUES
RECURSIVE hash_pieces(_, _, _, _)
hash_pieces(hash, board, ic, ip) ==
    IF ic > Len(ColorValues) THEN hash
    ELSE IF ip > Len(PieceValues) THEN hash_pieces(hash, board, ic + 1, 1)
    ELSE hash_pieces(hash_bitboard(hash, board.pieces[ColorValues[ic]][PieceValues[ip]],
                                   ColorValues[ic], PieceValues[ip]),
                     board, ic, ip + 1)

hash_castling(hash, board, c, p) ==
    IF board.castling_options[c][p] THEN bb_xor(hash, zobrist_castling(c, p)) ELSE hash

hash_en_passant(hash, board) ==
    IF board.en_passant_target # None
    THEN bb_xor(hash, zobrist_en_passant(board.en_passant_target))
    ELSE hash

\* variant of hash_side that also mixes in a key for the half-move clock
hash_side_and_clock(hash, board) ==
    bb_xor(IF board.next_move # "White" THEN bb_xor(hash, zobrist_side) ELSE hash,
           {845 + board.half_move_clock})

hash_side(hash, board) ==
    IF board.next_move # "White" THEN bb_xor(hash, zobrist_side) ELSE hash

zobrist_hash(board) ==
    LET h0 == EMPTY
        h1 == hash_side(h0, board)
        h2 == hash_castling(h1, board, "White", "King")
        h3 == hash_castling(h2, board, "White", "Queen")
        h4 == hash_castling(h3, board, "Black", "King")
        h5 == hash_castling(h4, board, "Black", "Queen")
        h6 == hash_en_passant(h5, board)
    IN  hash_pieces(h6, board, 1, 1)

(***************************************************************************)
(* ChessBoard::validate_and_apply_move                                     *)
(***************************************************************************)
\* Result<ChessBoard, IlegalMoveError>
Ok(b) == [ok |-> TRUE, board |-> b]

IlegalMove(m) == [ok |-> FALSE, move |-> m]

\* variant of find_and_apply that compares the squares and not the promotion
find_and_apply_squares(self, ms, m) ==
    IF \E k \in 1..Len(ms) : ms[k].from = m.from /\ ms[k].to = m.to
    THEN Ok(apply_move(self, m))
    ELSE IlegalMove(m)

\* the match on self.legal_moves().iter().find(|mm| *mm == m), ms being the legal moves
find_and_apply(self, ms, m) ==
    IF \E k \in 1..Len(ms) : ms[k] = m
    THEN Ok(apply_move(self, m))
    ELSE IlegalMove(m)

validate_and_apply_move(self, m) == find_and_apply(self, legal_moves(self), m)

(***************************************************************************)
(* Move: from_string and Display                                           *)
(***************************************************************************)
MoveErr == [ok |-> FALSE, called |-> TRUE]

\* Move::from_string on a string of ASCII characters
move_from_string(s) ==
    IF Len(s) \notin {4, 5} THEN MoveErr
    ELSE LET from == index_from_string(SubSeq(s, 1, 2))
             to == index_from_string(SubSeq(s, 3, 4))
             cp == IF Len(s) = 5 THEN piece_from_char(s[5]) ELSE <<>>
         IN  IF from = IndexErr THEN MoveErr
             ELSE IF to = IndexErr THEN MoveErr
             ELSE IF Len(s) = 5 /\ cp = <<>> THEN MoveErr
             ELSE [ok |-> TRUE, called |-> TRUE,
                   move |-> new_move(from, to, IF Len(s) = 5 THEN cp[2] ELSE NoPiece)]

\* impl Display for Move; a Piece is written as its Black character
move_to_string(m) ==
    index_to_string(m.from) \o index_to_string(m.to)
    \o (IF m.promotion # NoPiece THEN << piece_to_char(m.promotion, "Black") >> ELSE <<>>)

(***************************************************************************)
(* Positions                                                               *)
(***************************************************************************)
STANDARD_BOARD_FEN ==
    <<"r","n","b","q","k","b","n","r","/","p","p","p","p","p","p","p","p","/","8","/","8",
    "/","8","/","8","/","P","P","P","P","P","P","P","P","/","R","N","B","Q","K","B","N","R",
    " ","w"," ","K","Q","k","q"," ","-"," ","0"," ","1">>

\* a position of the PerfT tests: an en-passant capture is two plies away
FenEnPassant ==
    <<"8","/","2","p","5","/","3","p","4","/","K","P","5","r","/","1","R","3","p","1","k",
    "/","8","/","4","P","1","P","1","/","8"," ","w"," ","-"," ","-">>

\* pawns one step from promotion; the castling field names rights the placement cannot have
FenPromotion ==
    <<"4","k","3","/","P","7","/","8","/","8","/","8","/","8","/","7","p","/","4","K","3",
    " ","w"," ","K","Q","k","q"," ","-"," ","0"," ","1">>

\* the same placement later in a game
FenPromotionLate ==
    <<"4","k","3","/","P","7","/","8","/","8","/","8","/","8","/","7","p","/","4","K","3",
    " ","w"," ","-"," ","-"," ","7"," ","3","0">>

\* castling on either side, a rook that can be captured on its corner, a pinned pawn
FenCastling ==
    <<"4","k","2","r","/","7","p","/","8","/","8","/","8","/","8","/","P","B","6","/","R",
    "3","K","3"," ","w"," ","Q","k"," ","-"," ","0"," ","1">>

(***************************************************************************)
(* State                                                                   *)
(***************************************************************************)
VARIABLES
    board,      \* the position a game is at
    ply,        \* the moves played in it
    result,     \* what validate_and_apply_move returned, until the caller looks at it
    move,       \* the move it was called with
    cache,      \* PerfT.cache: the entry of every slot
    pc,         \* where the caller of PerfT is
    args,       \* the entry point it called last, with the position and the depth
    root,       \* the legal root moves perft_n iterates over
    spawned,    \* how many of them have a worker
    threads,    \* per thread (0 the caller, k the worker of root move k): state and stack
    chan,       \* the counts sent on the channel and not yet received
    ret,        \* what the last PerfT call returned
    calls,      \* the PerfT calls made on the instance
    fen,        \* the string given to from_fen
    parsed,     \* what from_fen returned
    out,        \* what to_fen wrote for it
    text,       \* the string given to Move::from_string
    parsed_move, \* what Move::from_string returned
    shown,      \* what to_string wrote for the move
    locks,      \* per slot of PerfT.cache: the thread that holds its Mutex, or None
    stored,     \* the (hash, depth, count) triples PerfTCache::set has been called with
    recent,     \* per slot: the triple of the last PerfTCache::set on it, <<>> before any
    query,      \* the last PerfTCache::get: its arguments and what it returned
    square,     \* the square given to GeneratorRook::attacks and GeneratorBishop::attacks
    occupancy,  \* the all_pieces given to them
    lookup      \* the generator asked last and the bitboard it returned

gameVars == <<board, ply, result, move>>

perftVars == <<cache, pc, args, root, spawned, threads, chan, ret, calls>>

fenVars == <<fen, parsed, out>>

moveVars == <<text, parsed_move, shown>>

lockVars == <<locks, stored>>

cacheVars == <<recent, query>>

magicVars == <<square, occupancy, lookup>>

sideVars == <<lockVars, cacheVars, magicVars>>

vars == <<board, ply, result, move, cache, pc, args, root, spawned, threads, chan, ret,
          calls, fen, parsed, out, text, parsed_move, shown, locks, stored, recent, query,
          square, occupancy, lookup>>

\* no call made yet
NoResult == [ok |-> FALSE]

NoMove == new_move(None, None, NoPiece)

(***************************************************************************)
(* A game played through validate_and_apply_move                           *)
(***************************************************************************)
\* moves played from the first position of a game
MaxPly == 2

GameFens == {STANDARD_BOARD_FEN, FenEnPassant, FenPromotion, FenPromotionLate, FenCastling}

\* the moves a caller tries: the pseudo-legal ones, the pawn moves among them with the
\* promotion added or taken away, and a1a8
Candidates(b) ==
    LET ms == moves(b)
    IN  {ms[k] : k \in 1..Len(ms)}
        \cup {new_move(ms[k].from, ms[k].to,
                       IF ms[k].promotion = NoPiece THEN "Queen" ELSE NoPiece) :
                  k \in {j \in 1..Len(ms) : piece_at(b, ms[j].from)[2] = "Pawn"}}
        \cup {new_move(A1, A8, NoPiece)}

GameIdle ==
    /\ board = from_fen(STANDARD_BOARD_FEN).board
    /\ ply = 0
    /\ result = NoResult
    /\ move = NoMove

GameInit ==
    /\ board \in {from_fen(f).board : f \in GameFens}
    /\ ply = 0
    /\ result = NoResult
    /\ move = NoMove

\* board.validate_and_apply_move(&m) for a move m the caller picks: board is borrowed,
\* the result is a new value. The legal moves are listed once for all the picks.
ValidateAndApplyMove ==
    /\ result = NoResult
    /\ ply < MaxPly
    /\ \E ms \in {legal_moves(board)} :
           \E m \in Candidates(board) :
               /\ result' = find_and_apply(board, ms, m)
               /\ move' = m
    /\ UNCHANGED <<board, ply>>

\* board.apply_move(&m) for a pseudo-legal move m, as perft1 and legal_moves call it
ApplyMove ==
    /\ result = NoResult
    /\ ply < MaxPly
    /\ \E ms \in {moves(board)} :
           \E k \in 1 .. Len(ms) :
               /\ result' = Ok(apply_move(board, ms[k]))
               /\ move' = ms[k]
    /\ UNCHANGED <<board, ply>>

\* Ok(b): the caller goes on from b
Continue ==
    /\ result # NoResult
    /\ result.ok
    /\ board' = result.board
    /\ ply' = ply + 1
    /\ result' = NoResult
    /\ move' = NoMove

\* Err(IlegalMove(m)): the caller stays where it is
Reject ==
    /\ result # NoResult
    /\ ~result.ok
    /\ result' = NoResult
    /\ move' = NoMove
    /\ UNCHANGED <<board, ply>>

(***************************************************************************)
(* PerfTCache                                                              *)
(***************************************************************************)
\* Option<u64>: <<>> is None, <<n>> is Some(n)
Some(n) == <<n>>

PerfTCacheEntry_new == [hash |-> EMPTY, depth |-> 0, count |-> 0]

PerfTCache_new(cache_size) ==
    [size |-> cache_size, cache |-> [i \in 0 .. cache_size - 1 |-> PerfTCacheEntry_new]]

\* the six low bits of a hash: bit j is the XOR of bit j of the keys in it, and the low
\* bits of a key are those of its number in drawing order
hash_low(hash) ==
    {j \in 0 .. 5 : Cardinality({k \in hash : j \in bits_of(k % 64)}) % 2 = 1}

\* ((self.size - 1) as u64 & hash) as usize, for size <= 64
cache_index(self, hash) == index_shr(bits_of(self.size - 1) \cap hash_low(hash), 0)

\* a lookup that compares the hash and not the depth
cache_get_any_depth(self, hash, depth) ==
    LET e == self.cache[cache_index(self, hash)]
    IN  IF e.hash # hash THEN <<>> ELSE Some(e.count)

cache_get(self, hash, depth) ==
    LET e == self.cache[cache_index(self, hash)]
    IN  IF e.hash # hash \/ e.depth # depth THEN <<>> ELSE Some(e.count)

\* variant of cache_set that writes the key of the entry and leaves its count
cache_set_torn(self, hash, depth, count) ==
    [self EXCEPT !.cache[cache_index(self, hash)] =
                     [hash |-> hash, depth |-> depth, count |-> @.count]]

cache_set(self, hash, depth, count) ==
    [self EXCEPT !.cache[cache_index(self, hash)] =
                     [hash |-> hash, depth |-> depth, count |-> count]]

(***************************************************************************)
(* PerfT::perft1, one activation per stack frame                           *)
(***************************************************************************)
\* a usize above 2^63 is written as the negative number congruent to it modulo 2^64
wrapping_sub(a, b) == a - b

new_frame(b, d) ==
    [board |-> b, depth |-> d, at |-> "enter", hash |-> EMPTY, attacks |-> EMPTY,
     is_check |-> FALSE, ms |-> <<>>, k |-> 0, count |-> 0]

\* the frame after a cache miss, about to run the closure on the first move
loop_frame(f, hash) ==
    LET atk == attacks(f.board, opponent(f.board.next_move))
    IN  [f EXCEPT !.at = "loop", !.hash = hash, !.attacks = atk,
                  !.is_check = (atk \cap f.board.pieces[f.board.next_move]["King"]) # EMPTY,
                  !.ms = moves(f.board), !.k = 1, !.count = 0]

\* variant of need_to_validate that trusts moves from attacked squares
need_to_validate_not_attacked(f, m) ==
    LET piece == piece_at(f.board, m.from)
        is_king == piece = <<f.board.next_move, "King">>
        is_enpassant == /\ piece = <<f.board.next_move, "Pawn">>
                        /\ f.board.en_passant_target # None
                        /\ m.to = f.board.en_passant_target
    IN  is_king \/ f.is_check \/ is_enpassant

\* variant of need_to_validate that trusts king moves
need_to_validate_not_king(f, m) ==
    LET piece == piece_at(f.board, m.from)
        is_enpassant == /\ piece = <<f.board.next_move, "Pawn">>
                        /\ f.board.en_passant_target # None
                        /\ m.to = f.board.en_passant_target
    IN  f.is_check \/ has_bit(f.attacks, m.from) \/ is_enpassant

need_to_validate(f, m) ==
    LET piece == piece_at(f.board, m.from)
        is_king == piece = <<f.board.next_move, "King">>
        is_enpassant == /\ piece = <<f.board.next_move, "Pawn">>
                        /\ f.board.en_passant_target # None
                        /\ m.to = f.board.en_passant_target
    IN  is_king \/ f.is_check \/ has_bit(f.attacks, m.from) \/ is_enpassant

\* whether the closure counts m (depth 1) or searches below it (deeper)
accepts(f, m) ==
    \/ ~need_to_validate(f, m)
    \/ ~is_opponent_king_under_check(apply_move(f.board, m))

(***************************************************************************)
(* Positions PerfT is run on                                               *)
(***************************************************************************)
\* two legal pawn moves; the king's two moves walk into the other king
FenCorner ==
    <<"8","/","8","/","8","/","8","/","8","/","8","/","7","P","/","5","k","1","K"," ","w",
    " ","-"," ","-"," ","0"," ","1">>

\* the h-pawn shields its king from the rook: its capture on g3 is only pseudo-legal
FenPinned ==
    <<"8","/","8","/","8","/","8","/","7","p","/","6","p","r","/","P","6","P","/","5","k",
    "1","K"," ","w"," ","-"," ","-"," ","0"," ","1">>

(***************************************************************************)
(* PerfT: the caller, the workers of perft_n and the steps of perft1       *)
(***************************************************************************)
\* slots of the cache, PerfT::new(cache_size)
CacheSize == 2

\* the largest depth a caller asks for
MaxDepth == 2

\* the calls made on one PerfT instance
MaxCalls == 2

PerftFens == {FenCorner, FenPinned}

NoThread == [state |-> "none", stack |-> <<>>]

NoArgs == [entry |-> "none", board |-> from_fen(FenCorner).board, depth |-> 0, checked |-> FALSE]

PerftIdle ==
    /\ cache = PerfTCache_new(CacheSize)
    /\ pc = "idle"
    /\ args = NoArgs
    /\ root = <<>>
    /\ spawned = 0
    /\ threads = [t \in {0} |-> NoThread]
    /\ chan = <<>>
    /\ ret = 0
    /\ calls = 0

top(t) == threads[t].stack[Len(threads[t].stack)]

running(t) == threads[t].state = "run" /\ threads[t].stack # <<>>

\* the stack of t with its top frame replaced
with_top(t, f) == [threads[t].stack EXCEPT ![Len(threads[t].stack)] = f]

\* perft1 returns v in thread t: to the activation below, which adds it to its count,
\* or, from the bottom frame, to the caller of perft1 (thread 0) or to tx.send (a worker)
Return(t, v) ==
    LET n == Len(threads[t].stack)
        below == threads[t].stack[n - 1]
    IN  IF n > 1
        THEN /\ threads' = [threads EXCEPT ![t].stack =
                                Append(SubSeq(@, 1, n - 2), [below EXCEPT !.count = @ + v])]
             /\ UNCHANGED <<pc, ret, chan>>
        ELSE IF t = 0
        THEN /\ threads' = [threads EXCEPT ![t] = NoThread]
             /\ ret' = v
             /\ pc' = "idle"
             /\ UNCHANGED chan
        ELSE /\ threads' = [threads EXCEPT ![t] = [state |-> "done", stack |-> <<>>]]
             /\ chan' = Append(chan, v)
             /\ UNCHANGED <<pc, ret>>

\* perft.perft1(&board, depth), called from outside
CallPerft1(b, d) ==
    /\ pc = "idle"
    /\ calls < MaxCalls
    /\ calls' = calls + 1
    /\ args' = [entry |-> "perft1", board |-> b, depth |-> d, checked |-> FALSE]
    /\ threads' = [t \in {0} |-> [state |-> "run", stack |-> <<new_frame(b, d)>>]]
    /\ pc' = "perft1"
    /\ root' = <<>>
    /\ spawned' = 0
    /\ chan' = <<>>
    /\ UNCHANGED <<cache, ret>>

\* perft1 up to the cache lookup: depth 0 returns 1, a hit returns the stored count
Perft1Enter(t) ==
    /\ running(t)
    /\ top(t).at = "enter"
    /\ LET f == top(t)
           hash == zobrist_hash(f.board)
           hit == cache_get(cache, hash, f.depth)
       IN  IF f.depth = 0 THEN Return(t, 1)
           ELSE IF hit # <<>> THEN Return(t, hit[1])
           ELSE /\ threads' = [threads EXCEPT ![t].stack = with_top(t, loop_frame(f, hash))]
                /\ UNCHANGED <<pc, ret, chan>>
    /\ UNCHANGED <<cache, args, root, spawned, calls>>

\* one run of the closure of board.moves: at depth 1 the move is counted, deeper it is
\* searched by a new activation of perft1
Perft1Move(t) ==
    /\ running(t)
    /\ top(t).at = "loop"
    /\ top(t).k <= Len(top(t).ms)
    /\ LET f == top(t)
           m == f.ms[f.k]
           next == [f EXCEPT !.k = @ + 1]
       IN  IF f.depth = 1
           THEN threads' = [threads EXCEPT ![t].stack =
                                with_top(t, [next EXCEPT !.count = @ + IF accepts(f, m) THEN 1 ELSE 0])]
           ELSE IF accepts(f, m)
           THEN /\ Len(threads[t].stack) < MaxDepth
                /\ threads' = [threads EXCEPT ![t].stack =
                                   Append(with_top(t, next),
                                          new_frame(apply_move(f.board, m), wrapping_sub(f.depth, 1)))]
           ELSE threads' = [threads EXCEPT ![t].stack = with_top(t, next)]
    /\ UNCHANGED <<cache, pc, args, root, spawned, chan, ret, calls>>

\* after the last move: the count is stored and returned
Perft1Set(t) ==
    /\ running(t)
    /\ top(t).at = "loop"
    /\ top(t).k > Len(top(t).ms)
    /\ cache' = cache_set(cache, top(t).hash, top(t).depth, top(t).count)
    /\ Return(t, top(t).count)
    /\ UNCHANGED <<args, root, spawned, calls>>

\* perft.perft_n(&board, depth): the channel is made and the legal root moves are listed
CallPerftN(b, d, checked) ==
    /\ pc = "idle"
    /\ calls < MaxCalls
    /\ calls' = calls + 1
    /\ args' = [entry |-> "perft_n", board |-> b, depth |-> d, checked |-> checked]
    /\ root' = legal_moves(b)
    /\ threads' = [t \in 0 .. Len(root') |-> NoThread]
    /\ spawned' = 0
    /\ chan' = <<>>
    /\ pc' = "scope"
    /\ UNCHANGED <<cache, ret>>

\* scope.spawn for the next root move
Spawn ==
    /\ pc = "scope"
    /\ spawned < Len(root)
    /\ spawned' = spawned + 1
    /\ threads' = [threads EXCEPT ![spawned + 1].state = "spawned"]
    /\ UNCHANGED <<cache, pc, args, root, chan, ret, calls>>

\* the worker's closure up to its call of perft1(&new_board, depth - 1). At depth 0 the
\* subtraction overflows: a build with overflow checks panics, one without them wraps
WorkerStart(t) ==
    /\ t # 0
    /\ threads[t].state = "spawned"
    /\ IF args.depth = 0 /\ args.checked
       THEN threads' = [threads EXCEPT ![t].state = "panicked"]
       ELSE threads' = [threads EXCEPT ![t] =
                [state |-> "run",
                 stack |-> <<new_frame(apply_move(args.board, root[t]),
                                       wrapping_sub(args.depth, 1))>>]]
    /\ UNCHANGED <<cache, pc, args, root, spawned, chan, ret, calls>>

\* the end of thread::scope: every worker has finished; the scope panics if one of them did
Join ==
    /\ pc = "scope"
    /\ spawned = Len(root)
    /\ \A t \in 1 .. Len(root) : threads[t].state \in {"done", "panicked"}
    /\ pc' = IF \E t \in 1 .. Len(root) : threads[t].state = "panicked" THEN "panicked"
             ELSE "joined"
    /\ UNCHANGED <<cache, args, root, spawned, threads, chan, ret, calls>>

RECURSIVE sum(_)
sum(s) == IF s = <<>> THEN 0 ELSE Head(s) + sum(Tail(s))

\* drop(tx); rx.iter().sum()
Sum ==
    /\ pc = "joined"
    /\ ret' = sum(chan)
    /\ chan' = <<>>
    /\ threads' = [t \in {0} |-> NoThread]
    /\ pc' = "idle"
    /\ UNCHANGED <<cache, args, root, spawned, calls>>

(***************************************************************************)
(* perft1 with the Mutex of each cache slot: get and set step by step      *)
(***************************************************************************)
\* a Mutex that lets every thread in
lock_never_held(held, slot) == TRUE

\* self.cache[index].lock() returns once no thread holds the Mutex of the slot
lock_is_free(held, slot) == held[slot] = None

\* a guard that outlives the call it was taken in
guard_kept(held, slot) == held

\* the MutexGuard goes out of scope
guard_dropped(held, slot) == [held EXCEPT ![slot] = None]

\* the positions of a frame inside get and set, between lock() and the end of the guard
InGet == {"get_locked", "get_hit"}

InSet == {"set_locked", "set_key"}

\* perft1 up to its call of self.cache.get: depth 0 returns 1, else the hash is taken
Perft1Hash(t) ==
    /\ running(t)
    /\ top(t).at = "enter"
    /\ IF top(t).depth = 0 THEN Return(t, 1)
       ELSE /\ threads' = [threads EXCEPT ![t].stack =
                               with_top(t, [top(t) EXCEPT !.at = "get",
                                                          !.hash = zobrist_hash(top(t).board)])]
            /\ UNCHANGED <<pc, ret, chan>>
    /\ UNCHANGED <<cache, args, root, spawned, calls, locks, stored>>

\* get: let e = self.cache[index].lock().unwrap()
GetLock(t) ==
    /\ running(t)
    /\ top(t).at = "get"
    /\ lock_is_free(locks, cache_index(cache, top(t).hash))
    /\ locks' = [locks EXCEPT ![cache_index(cache, top(t).hash)] = t]
    /\ threads' = [threads EXCEPT ![t].stack = with_top(t, [top(t) EXCEPT !.at = "get_locked"])]
    /\ UNCHANGED <<cache, pc, args, root, spawned, chan, ret, calls, stored>>

\* get: e.hash != hash || e.depth != depth. On a mismatch get returns None, the guard
\* is dropped and perft1 goes on to the attacks and the moves
GetKey(t) ==
    /\ running(t)
    /\ top(t).at = "get_locked"
    /\ LET f == top(t)
           slot == cache_index(cache, f.hash)
           e == cache.cache[slot]
       IN  IF e.hash # f.hash \/ e.depth # f.depth
           THEN /\ threads' = [threads EXCEPT ![t].stack = with_top(t, loop_frame(f, f.hash))]
                /\ locks' = guard_dropped(locks, slot)
           ELSE /\ threads' = [threads EXCEPT ![t].stack =
                                   with_top(t, [f EXCEPT !.at = "get_hit"])]
                /\ UNCHANGED locks
    /\ UNCHANGED <<cache, pc, args, root, spawned, chan, ret, calls, stored>>

\* get: Some(e.count), and the guard is dropped as get returns
GetCount(t) ==
    /\ running(t)
    /\ top(t).at = "get_hit"
    /\ LET f == top(t)
           slot == cache_index(cache, f.hash)
       IN  /\ threads' = [threads EXCEPT ![t].stack =
                              with_top(t, [f EXCEPT !.at = "got",
                                                    !.count = cache.cache[slot].count])]
           /\ locks' = guard_dropped(locks, slot)
    /\ UNCHANGED <<cache, pc, args, root, spawned, chan, ret, calls, stored>>

\* if let Some(count) = self.cache.get(hash, depth) { return count; }
GetReturn(t) ==
    /\ running(t)
    /\ top(t).at = "got"
    /\ Return(t, top(t).count)
    /\ UNCHANGED <<cache, args, root, spawned, calls, locks, stored>>

\* set, called after the last move: self.cache[index].lock().unwrap()
SetLock(t) ==
    /\ running(t)
    /\ top(t).at = "loop"
    /\ top(t).k > Len(top(t).ms)
    /\ lock_is_free(locks, cache_index(cache, top(t).hash))
    /\ locks' = [locks EXCEPT ![cache_index(cache, top(t).hash)] = t]
    /\ stored' = stored \cup {<<top(t).hash, top(t).depth, top(t).count>>}
    /\ threads' = [threads EXCEPT ![t].stack = with_top(t, [top(t) EXCEPT !.at = "set_locked"])]
    /\ UNCHANGED <<cache, pc, args, root, spawned, chan, ret, calls>>

\* set: the hash and the depth of PerfTCacheEntry { hash, depth, count } are written
SetKey(t) ==
    /\ running(t)
    /\ top(t).at = "set_locked"
    /\ cache' = [cache EXCEPT !.cache[cache_index(cache, top(t).hash)] =
                      [@ EXCEPT !.hash = top(t).hash, !.depth = top(t).depth]]
    /\ threads' = [threads EXCEPT ![t].stack = with_top(t, [top(t) EXCEPT !.at = "set_key"])]
    /\ UNCHANGED <<pc, args, root, spawned, chan, ret, calls, locks, stored>>

\* set: the count is written, the guard is dropped at the end of the statement, and
\* perft1 returns count
SetCount(t) ==
    /\ running(t)
    /\ top(t).at = "set_key"
    /\ cache' = [cache EXCEPT !.cache[cache_index(cache, top(t).hash)].count = top(t).count]
    /\ locks' = guard_dropped(locks, cache_index(cache', top(t).hash))
    /\ Return(t, top(t).count)
    /\ UNCHANGED <<args, root, spawned, calls, stored>>

(***************************************************************************)
(* from_fen and to_fen on a string                                         *)
(***************************************************************************)
\* from_fen not called yet
NotParsed == [ok |-> FALSE, called |-> FALSE]

PlacementStandard ==
    <<"r","n","b","q","k","b","n","r","/","p","p","p","p","p","p","p","p","/","8","/","8",
    "/","8","/","8","/","P","P","P","P","P","P","P","P","/","R","N","B","Q","K","B","N",
    "R">>

PlacementRooks ==
    <<"r","3","k","2","r","/","8","/","8","/","8","/","8","/","8","/","8","/","R","3","K",
    "2","R">>

PlacementPawns ==
    <<"4","k","3","/","P","7","/","8","/","8","/","8","/","8","/","7","p","/","4","K","3">>

FenPlacements == {PlacementStandard, PlacementRooks, PlacementPawns}

FenSides == {<<"w">>, <<"b">>}

FenCastlings == {<<"-">>, <<"K", "Q", "k", "q">>, <<"Q", "k">>, <<"K">>}

FenTargets == {<<"-">>, <<"e", "3">>, <<"d", "6">>}

FenClocks == {<<"0", " ", "1">>, <<"1", "2", " ", "3", "4">>}

\* the castling field names only rights the placement allows, and the target is on
\* the rank the side that just moved pushes over
FenFieldsAgree(p, sd, c, t) ==
    /\ p = PlacementPawns => c = <<"-">>
    /\ t = <<"e", "3">> => sd = <<"b">>
    /\ t = <<"d", "6">> => sd = <<"w">>

\* six fields, one space between them
FenInputs ==
    {x[1] \o <<" ">> \o x[2] \o <<" ">> \o x[3] \o <<" ">> \o x[4] \o <<" ">> \o x[5] :
         x \in {y \in FenPlacements \X FenSides \X FenCastlings \X FenTargets \X FenClocks :
                    FenFieldsAgree(y[1], y[2], y[3], y[4])}}

FenIdle ==
    /\ fen = <<>>
    /\ parsed = NotParsed
    /\ out = <<>>

FenInit ==
    /\ fen \in FenInputs
    /\ parsed = NotParsed
    /\ out = <<>>

\* ChessBoard::from_fen(fen)
FromFen ==
    /\ parsed = NotParsed
    /\ parsed' = from_fen(fen)
    /\ UNCHANGED <<fen, out>>

\* board.to_fen() on the position from_fen returned
ToFen ==
    /\ parsed.ok
    /\ out = <<>>
    /\ out' = to_fen(parsed.board)
    /\ UNCHANGED <<fen, parsed>>

(***************************************************************************)
(* Move::from_string and to_string on a string                             *)
(***************************************************************************)
NotParsedMove == [ok |-> FALSE, called |-> FALSE]

MoveFroms == {<<"a", "7">>, <<"e", "2">>, <<"h", "8">>, <<"i", "1">>, <<"a", "9">>, <<"7", "a">>}

MoveTos == {<<"a", "8">>, <<"e", "4">>, <<"h", "1">>, <<"j", "3">>, <<"a", "0">>}

MoveSuffixes ==
    {<<>>, <<"q">>, <<"r">>, <<"b">>, <<"n">>, <<"k">>, <<"p">>, <<"x">>, <<"1">>, <<"q", "q">>}

\* strings of two to six characters
MoveTexts ==
    {x[1] \o x[2] \o x[3] : x \in MoveFroms \X MoveTos \X MoveSuffixes}
    \cup {x \o <<"e">> : x \in MoveFroms} \cup MoveFroms

MoveIdle ==
    /\ text = <<>>
    /\ parsed_move = NotParsedMove
    /\ shown = <<>>

MoveInit ==
    /\ text \in MoveTexts
    /\ parsed_move = NotParsedMove
    /\ shown = <<>>

\* Move::from_string(text)
MoveFromString ==
    /\ parsed_move = NotParsedMove
    /\ parsed_move' = move_from_string(text)
    /\ UNCHANGED <<text, shown>>

\* m.to_string() on the move Move::from_string returned
MoveToString ==
    /\ parsed_move.ok
    /\ shown = <<>>
    /\ shown' = move_to_string(parsed_move.move)
    /\ UNCHANGED <<text, parsed_move>>

\* a pawn that can be taken en passant after its double step
FenPassant ==
    <<"4","k","3","/","8","/","8","/","8","/","5","p","2","/","8","/","4","P","3","/","4",
    "K","3"," ","w"," ","-"," ","-"," ","0"," ","1">>

\* king-side castling, the rook hemmed in by its pawn
FenShortCastle ==
    <<"4","k","3","/","8","/","8","/","8","/","8","/","8","/","7","P","/","4","K","2","R",
    " ","w"," ","K"," ","-"," ","0"," ","1">>

(***************************************************************************)
(* GeneratorRook::attacks and GeneratorBishop::attacks on a square and an  *)
(* occupancy                                                               *)
(***************************************************************************)
\* no lookup made yet
NoLookup == [by |-> "none", attacks |-> EMPTY]

\* the squares of the four lines through i that the masks keep
LineMasks(i) == {rank_mask[i], file_mask[i], a1h8_mask[i], a8h1_mask[i]}

\* the occupancies tried on square i: every subset of the masked part of each line
\* through i, alone and with every square off that part occupied as well, i included
Occupancies(i) ==
    UNION {{x \cup rest : x \in SUBSET line, rest \in {EMPTY, ALL_FIELDS \ line}} :
               line \in LineMasks(i)}

MagicIdle ==
    /\ square = None
    /\ occupancy = EMPTY
    /\ lookup = NoLookup

MagicInit ==
    /\ square \in ALL_FIELDS
    /\ occupancy \in Occupancies(square)
    /\ lookup = NoLookup

\* self.generator_rook.attacks(i, all_pieces)
RookAttacks ==
    /\ lookup' = [by |-> "rook", attacks |-> rook_attacks(square, occupancy)]
    /\ UNCHANGED <<square, occupancy>>

\* self.generator_bishop.attacks(i, all_pieces)
BishopAttacks ==
    /\ lookup' = [by |-> "bishop", attacks |-> bishop_attacks(square, occupancy)]
    /\ UNCHANGED <<square, occupancy>>

(***************************************************************************)
(* Specifications                                                          *)
(***************************************************************************)
\* no Mutex of the cache is held and set has not been called
LockIdle ==
    /\ locks = [i \in 0 .. CacheSize - 1 |-> None]
    /\ stored = {}

\* no get or set made on a cache of its own
NoQuery == [hash |-> EMPTY, depth |-> 0, returned |-> <<>>, called |-> FALSE]

CacheIdle ==
    /\ recent = <<>>
    /\ query = NoQuery

SideIdle == LockIdle /\ CacheIdle /\ MagicIdle

(***************************************************************************)
(* PerfTCache::get and PerfTCache::set on caches of several sizes          *)
(***************************************************************************)
\* PerfTCache::new(cache_size) for these sizes, powers of two
CacheSizes == {1, 2, 4}

\* hashes that share a slot and hashes that do not, by their low bits 0, 0, 1, 2, 3
CacheHashes == {EMPTY, {64}, {1}, {2}, {1, 2}}

CacheDepths == 0 .. MaxDepth

CacheCounts == {0, 20}

\* the slot a hash belongs to in a cache of n slots, n a power of two
SlotOf(hash, n) == index_shr(hash_low(hash), 0) % n

CacheInit ==
    /\ \E n \in CacheSizes :
           /\ cache = PerfTCache_new(n)
           /\ recent = [i \in 0 .. n - 1 |-> <<>>]
    /\ query = NoQuery

\* self.cache.set(hash, depth, count)
CacheSet ==
    /\ ~query.called
    /\ \E hash \in CacheHashes, depth \in CacheDepths, count \in CacheCounts :
           /\ cache' = cache_set(cache, hash, depth, count)
           /\ recent' = [recent EXCEPT ![SlotOf(hash, cache.size)] = <<hash, depth, count>>]
    /\ UNCHANGED query

\* self.cache.get(hash, depth), which leaves the cache as it is: a run ends with it.
\* last is what the slot was last set to
CacheGet ==
    /\ ~query.called
    /\ \E hash \in CacheHashes, depth \in CacheDepths :
           query' = [hash |-> hash, depth |-> depth, returned |-> cache_get(cache, hash, depth),
                     called |-> TRUE, last |-> recent[SlotOf(hash, cache.size)]]
    /\ UNCHANGED <<cache, recent>>

\* get and set called in any order on one cache
InitCache ==
    /\ GameIdle /\ FenIdle /\ MoveIdle /\ LockIdle /\ MagicIdle
    /\ pc = "idle" /\ args = NoArgs /\ root = <<>> /\ spawned = 0
    /\ threads = [t \in {0} |-> NoThread] /\ chan = <<>> /\ ret = 0 /\ calls = 0
    /\ CacheInit

NextCache ==
    \/ CacheSet /\ UNCHANGED <<pc, args, root, spawned, threads, chan, ret, calls>> /\ UNCHANGED gameVars /\ UNCHANGED fenVars /\ UNCHANGED moveVars /\ UNCHANGED lockVars /\ UNCHANGED magicVars
    \/ CacheGet /\ UNCHANGED <<pc, args, root, spawned, threads, chan, ret, calls>> /\ UNCHANGED gameVars /\ UNCHANGED fenVars /\ UNCHANGED moveVars /\ UNCHANGED lockVars /\ UNCHANGED magicVars

SpecCache == InitCache /\ [][NextCache]_vars

\* games from the standard opening and from positions later in a game
Init == GameInit /\ PerftIdle /\ FenIdle /\ MoveIdle /\ SideIdle

Next ==
    \/ ValidateAndApplyMove /\ UNCHANGED perftVars /\ UNCHANGED fenVars /\ UNCHANGED moveVars /\ UNCHANGED sideVars
    \/ Continue /\ UNCHANGED perftVars /\ UNCHANGED fenVars /\ UNCHANGED moveVars /\ UNCHANGED sideVars
    \/ Reject /\ UNCHANGED perftVars /\ UNCHANGED fenVars /\ UNCHANGED moveVars /\ UNCHANGED sideVars

Spec == Init /\ [][Next]_vars

\* games from positions with few pieces, for what is said of legal_moves itself
LegalFens == {FenPromotion, FenPinned, FenCorner, FenPassant, FenShortCastle}

InitLegal ==
    /\ board \in {from_fen(f).board : f \in LegalFens}
    /\ ply = 0
    /\ result = NoResult
    /\ move = NoMove
    /\ PerftIdle
    /\ FenIdle
    /\ MoveIdle /\ SideIdle

SpecLegal == InitLegal /\ [][Next]_vars

\* after 1. e4 a6 2. e5, Black to move
FenAdvance ==
    <<"r","n","b","q","k","b","n","r","/","1","p","p","p","p","p","p","p","/","p","7","/",
    "4","P","3","/","8","/","8","/","P","P","P","P","1","P","P","P","/","R","N","B","Q",
    "K","B","N","R"," ","b"," ","K","Q","k","q"," ","-"," ","0"," ","2">>

\* pawns that promote by a step or by a capture
FenPromotionCapture ==
    <<"1","n","2","k","3","/","P","7","/","8","/","8","/","8","/","8","/","7","p","/","4","K",
    "1","R","1"," ","w"," ","-"," ","-"," ","0"," ","1">>

\* the Black king stands attacked with White to move: the pseudo-legal Rxe8 takes it
FenKingAttacked ==
    <<"4","k","3","/","p","7","/","8","/","8","/","8","/","8","/","4","R","3","/","4","K","3",
    " ","w"," ","-"," ","-"," ","0"," ","1">>

\* kings beside their starting squares: they step to c1 and to g8 without castling
FenKingsAside ==
    <<"5","k","2","/","8","/","8","/","8","/","8","/","8","/","8","/","3","K","3","R",
    " ","w"," ","-"," ","-"," ","0"," ","1">>

\* apply_move on every pseudo-legal move, from positions with double steps, en-passant
\* captures, promotions, castling and the capture of a king at hand
ApplyFens ==
    {FenAdvance, FenEnPassant, FenPromotion, FenPromotionLate, FenPromotionCapture, FenCastling,
     FenKingAttacked, FenKingsAside}

InitApply ==
    /\ board \in {from_fen(f).board : f \in ApplyFens}
    /\ ply = 0
    /\ result = NoResult
    /\ move = NoMove
    /\ PerftIdle
    /\ FenIdle
    /\ MoveIdle /\ SideIdle

NextApply ==
    \/ ApplyMove /\ UNCHANGED perftVars /\ UNCHANGED fenVars /\ UNCHANGED moveVars /\ UNCHANGED sideVars
    \/ Continue /\ UNCHANGED perftVars /\ UNCHANGED fenVars /\ UNCHANGED moveVars /\ UNCHANGED sideVars

SpecApply == InitApply /\ [][NextApply]_vars

\* calls of perft1 and perft_n on one PerfT instance
PerftBoards == {from_fen(f).board : f \in PerftFens}

InitPerft == GameIdle /\ PerftIdle /\ FenIdle /\ MoveIdle /\ SideIdle

NextPerft ==
    \/ \E b \in PerftBoards, d \in 0 .. MaxDepth : CallPerft1(b, d) /\ UNCHANGED gameVars /\ UNCHANGED fenVars /\ UNCHANGED moveVars /\ UNCHANGED sideVars
    \/ \E b \in PerftBoards, d \in 0 .. MaxDepth, checked \in BOOLEAN :
           /\ (d # 0 => ~checked)
           /\ CallPerftN(b, d, checked) /\ UNCHANGED gameVars /\ UNCHANGED fenVars /\ UNCHANGED moveVars /\ UNCHANGED sideVars
    \/ Spawn /\ UNCHANGED gameVars /\ UNCHANGED fenVars /\ UNCHANGED moveVars /\ UNCHANGED sideVars
    \/ \E t \in DOMAIN threads : WorkerStart(t) /\ UNCHANGED gameVars /\ UNCHANGED fenVars /\ UNCHANGED moveVars /\ UNCHANGED sideVars
    \/ \E t \in DOMAIN threads : Perft1Enter(t) /\ UNCHANGED gameVars /\ UNCHANGED fenVars /\ UNCHANGED moveVars /\ UNCHANGED sideVars
    \/ \E t \in DOMAIN threads : Perft1Move(t) /\ UNCHANGED gameVars /\ UNCHANGED fenVars /\ UNCHANGED moveVars /\ UNCHANGED sideVars
    \/ \E t \in DOMAIN threads : Perft1Set(t) /\ UNCHANGED gameVars /\ UNCHANGED fenVars /\ UNCHANGED moveVars /\ UNCHANGED sideVars
    \/ Join /\ UNCHANGED gameVars /\ UNCHANGED fenVars /\ UNCHANGED moveVars /\ UNCHANGED sideVars
    \/ Sum /\ UNCHANGED gameVars /\ UNCHANGED fenVars /\ UNCHANGED moveVars /\ UNCHANGED sideVars

SpecPerft == InitPerft /\ [][NextPerft]_vars

\* the rook and bishop lookups on every square
InitMagic ==
    /\ GameIdle /\ PerftIdle /\ FenIdle /\ MoveIdle /\ LockIdle /\ CacheIdle
    /\ MagicInit

NextMagic ==
    \/ RookAttacks /\ UNCHANGED gameVars /\ UNCHANGED perftVars /\ UNCHANGED fenVars /\ UNCHANGED moveVars /\ UNCHANGED lockVars /\ UNCHANGED cacheVars
    \/ BishopAttacks /\ UNCHANGED gameVars /\ UNCHANGED perftVars /\ UNCHANGED fenVars /\ UNCHANGED moveVars /\ UNCHANGED lockVars /\ UNCHANGED cacheVars

SpecMagic == InitMagic /\ [][NextMagic]_vars

\* two root moves, h3 and h4, whose positions share a cache slot and have four and five
\* legal replies
FenGuarded ==
    <<"8","/","8","/","8","/","6","p","1","/","8","/","8","/","7","P","/","5","k","1","K",
    " ","w"," ","-"," ","-"," ","0"," ","1">>

\* the mated position of the perft_n tests: no legal root move
FenMated ==
    <<"2","b","q","k","b","n","1","/","3","p","p","p","p","p","/","8","/","8","/","8","/",
    "8","/","r","7","/","1","r","2","K","3"," ","w"," ","-"," ","-"," ","0"," ","1">>

LockBoards == {from_fen(f).board : f \in {FenGuarded, FenMated}}

\* calls of perft1 and perft_n on one PerfT instance, the slots locked and unlocked
InitLock == InitPerft

NextLock ==
    \/ \E b \in LockBoards, d \in 0 .. MaxDepth : CallPerft1(b, d) /\ UNCHANGED gameVars /\ UNCHANGED fenVars /\ UNCHANGED moveVars /\ UNCHANGED sideVars
    \/ \E b \in LockBoards, d \in 0 .. MaxDepth, checked \in BOOLEAN :
           /\ (d # 0 => ~checked)
           /\ CallPerftN(b, d, checked) /\ UNCHANGED gameVars /\ UNCHANGED fenVars /\ UNCHANGED moveVars /\ UNCHANGED sideVars
    \/ Spawn /\ UNCHANGED gameVars /\ UNCHANGED fenVars /\ UNCHANGED moveVars /\ UNCHANGED sideVars
    \/ \E t \in DOMAIN threads : WorkerStart(t) /\ UNCHANGED gameVars /\ UNCHANGED fenVars /\ UNCHANGED moveVars /\ UNCHANGED sideVars
    \/ \E t \in DOMAIN threads : Perft1Hash(t) /\ UNCHANGED gameVars /\ UNCHANGED fenVars /\ UNCHANGED moveVars /\ UNCHANGED cacheVars /\ UNCHANGED magicVars
    \/ \E t \in DOMAIN threads : GetLock(t) /\ UNCHANGED gameVars /\ UNCHANGED fenVars /\ UNCHANGED moveVars /\ UNCHANGED cacheVars /\ UNCHANGED magicVars
    \/ \E t \in DOMAIN threads : GetKey(t) /\ UNCHANGED gameVars /\ UNCHANGED fenVars /\ UNCHANGED moveVars /\ UNCHANGED cacheVars /\ UNCHANGED magicVars
    \/ \E t \in DOMAIN threads : GetCount(t) /\ UNCHANGED gameVars /\ UNCHANGED fenVars /\ UNCHANGED moveVars /\ UNCHANGED cacheVars /\ UNCHANGED magicVars
    \/ \E t \in DOMAIN threads : GetReturn(t) /\ UNCHANGED gameVars /\ UNCHANGED fenVars /\ UNCHANGED moveVars /\ UNCHANGED cacheVars /\ UNCHANGED magicVars
    \/ \E t \in DOMAIN threads : Perft1Move(t) /\ UNCHANGED gameVars /\ UNCHANGED fenVars /\ UNCHANGED moveVars /\ UNCHANGED sideVars
    \/ \E t \in DOMAIN threads : SetLock(t) /\ UNCHANGED gameVars /\ UNCHANGED fenVars /\ UNCHANGED moveVars /\ UNCHANGED cacheVars /\ UNCHANGED magicVars
    \/ \E t \in DOMAIN threads : SetKey(t) /\ UNCHANGED gameVars /\ UNCHANGED fenVars /\ UNCHANGED moveVars /\ UNCHANGED cacheVars /\ UNCHANGED magicVars
    \/ \E t \in DOMAIN threads : SetCount(t) /\ UNCHANGED gameVars /\ UNCHANGED fenVars /\ UNCHANGED moveVars /\ UNCHANGED cacheVars /\ UNCHANGED magicVars
    \/ Join /\ UNCHANGED gameVars /\ UNCHANGED fenVars /\ UNCHANGED moveVars /\ UNCHANGED sideVars
    \/ Sum /\ UNCHANGED gameVars /\ UNCHANGED fenVars /\ UNCHANGED moveVars /\ UNCHANGED sideVars

SpecLock == InitLock /\ [][NextLock]_vars

\* a step of thread t
ThreadStep(t) ==
    /\ t \in DOMAIN threads
    /\ \/ /\ \/ Perft1Hash(t) \/ GetLock(t) \/ GetKey(t) \/ GetCount(t) \/ GetReturn(t)
             \/ SetLock(t) \/ SetKey(t) \/ SetCount(t)
          /\ UNCHANGED <<gameVars, fenVars, moveVars, cacheVars, magicVars>>
       \/ /\ WorkerStart(t) \/ Perft1Move(t)
          /\ UNCHANGED <<gameVars, fenVars, moveVars, sideVars>>

\* a step of thread t inside get or set, after lock()
GuardedStep(t) ==
    /\ t \in DOMAIN threads
    /\ GetKey(t) \/ GetCount(t) \/ SetKey(t) \/ SetCount(t)
    /\ UNCHANGED <<gameVars, fenVars, moveVars, cacheVars, magicVars>>

\* a step of the thread that called perft_n, inside thread::scope and after it
ScopeStep ==
    /\ Spawn \/ Join \/ Sum
    /\ UNCHANGED <<gameVars, fenVars, moveVars, sideVars>>

\* from_fen, then to_fen, on six-field FEN strings
InitFen == GameIdle /\ PerftIdle /\ FenInit /\ MoveIdle /\ SideIdle

NextFen ==
    \/ FromFen /\ UNCHANGED gameVars /\ UNCHANGED perftVars /\ UNCHANGED moveVars /\ UNCHANGED sideVars
    \/ ToFen /\ UNCHANGED gameVars /\ UNCHANGED perftVars /\ UNCHANGED moveVars /\ UNCHANGED sideVars

SpecFen == InitFen /\ [][NextFen]_vars

\* Move::from_string, then to_string, on strings of two to six characters
InitMove == GameIdle /\ PerftIdle /\ FenIdle /\ MoveInit /\ SideIdle

NextMove ==
    \/ MoveFromString /\ UNCHANGED gameVars /\ UNCHANGED perftVars /\ UNCHANGED fenVars /\ UNCHANGED sideVars
    \/ MoveToString /\ UNCHANGED gameVars /\ UNCHANGED perftVars /\ UNCHANGED fenVars /\ UNCHANGED sideVars

SpecMove == InitMove /\ [][NextMove]_vars

(***************************************************************************)
(* Properties                                                              *)
(***************************************************************************)
RECURSIVE Total(_)
Total(s) == IF s = <<>> THEN 0 ELSE Head(s) + Total(Tail(s))

\* the recurrence: 1 at depth 0, else the sum over the legal moves of the count one
\* level down
RECURSIVE Recurrence(_, _)
Recurrence(p, d) ==
    IF d = 0 THEN 1
    ELSE LET ms == legal_moves(p)
         IN  Total([k \in 1..Len(ms) |-> Recurrence(apply_move(p, ms[k]), d - 1)])

\* C1: when perft1(p, d) has returned to its caller, the value is 1 for d = 0 and for
\* d >= 1 the sum over the legal moves m of p of the count of apply_move(p, m) at d - 1,
\* whatever the earlier calls on the instance left in the cache
C1_Perft1Recurrence ==
    (pc = "idle" /\ args.entry = "perft1") => ret = Recurrence(args.board, args.depth)

\* a second call, two levels deep, has returned and its count is in the cache
C1_Witness ==
    /\ pc = "idle"
    /\ args.entry = "perft1"
    /\ calls > 1
    /\ args.depth > 1
    /\ cache_get(cache, zobrist_hash(args.board), args.depth) = Some(ret)
    /\ ret > Len(moves(args.board))

\* C2: when perft_n(p, d), d >= 1, has returned, the value is the sum over the legal
\* root moves m of the count of apply_move(p, m) at d - 1, in every interleaving of the
\* workers' cache reads, cache writes and sends
C2_PerftNSum ==
    (pc = "idle" /\ args.entry = "perft_n" /\ args.depth >= 1) =>
        LET ms == legal_moves(args.board)
        IN  ret = Total([k \in 1..Len(ms) |->
                            Recurrence(apply_move(args.board, ms[k]), args.depth - 1)])

\* a second call with two workers, each searching below its root move, has returned
C2_Witness ==
    /\ pc = "idle"
    /\ args.entry = "perft_n"
    /\ calls > 1
    /\ args.depth > 1
    /\ Len(root) > 1
    /\ ret > Len(root)

\* C3: at depth 0 both entry points return 1, and in perft_n no worker's depth - 1
\* underflows: nothing panics and no activation of perft1 has a wrapped depth
C3_DepthZeroReturnsOne ==
    (args.entry # "none" /\ args.depth = 0) =>
        /\ pc # "panicked"
        /\ \A t \in DOMAIN threads :
               /\ threads[t].state # "panicked"
               /\ \A i \in 1..Len(threads[t].stack) : threads[t].stack[i].depth >= 0
        /\ (pc = "idle" => ret = 1)

C5_CastlingNeedsKingAndRookHome ==
    \A c \in Colors : \A sd \in CastlingSides :
        board.castling_options[c][sd] =>
            LET r == IF c = "White" THEN 0 ELSE 7
            IN  /\ has_bit(board.pieces[c]["King"], from_rank_and_file(r, 4))
                /\ has_bit(board.pieces[c]["Rook"],
                           from_rank_and_file(r, IF sd = "Queen" THEN 0 ELSE 7))

\* the rook on h8 has just been captured: Black's king-side flag is gone, White's
\* queen-side flag is still there
C5_Witness ==
    /\ ply = 1
    /\ ~has_bit(board.pieces["Black"]["Rook"], H8)
    /\ has_bit(board.pieces["Black"]["King"], E8)
    /\ ~board.castling_options["Black"]["King"]
    /\ board.castling_options["White"]["Queen"]

\* C6: no two of the 12 (colour, kind) bitboards share a set bit, and each colour's
\* king bitboard has at most one bit
C6_BitboardsDisjoint ==
    /\ \A a \in Colors \X Pieces : \A b \in Colors \X Pieces :
           a # b => board.pieces[a[1]][a[2]] \cap board.pieces[b[1]][b[2]] = EMPTY
    /\ \A c \in Colors : Cardinality(board.pieces[c]["King"]) <= 1

\* the bishop has just captured the rook on h8
C6_Witness ==
    /\ ply = 1
    /\ board.pieces["White"]["Bishop"] = {H8}
    /\ board.pieces["Black"]["Rook"] = EMPTY

\* the mover's king stands on a square the opponent attacks once m is applied
king_attacked_after(p, m) ==
    LET q == apply_move(p, m)
    IN  q.pieces[p.next_move]["King"] \cap attacks(q, q.next_move) # EMPTY

\* C7: legal_moves(p) is the subsequence, in the same order, of moves(p) of those m
\* after which the mover's king is not attacked
C7_LegalMovesAreTheSafePseudoLegal ==
    result = NoResult =>
        legal_moves(board) = SelectSeq(moves(board), LAMBDA m : ~king_attacked_after(board, m))

\* two plies into a game the side to move has legal moves, and the capture by the pawn
\* that shields its king is pseudo-legal and left out
C7_Witness ==
    /\ result = NoResult
    /\ ply = 2
    /\ legal_moves(board) # <<>>
    /\ \E k \in 1..Len(moves(board)) :
           /\ piece_at(board, moves(board)[k].from) = <<"White", "Pawn">>
           /\ king_attacked_after(board, moves(board)[k])

\* C8: validate_and_apply_move(p, m) returns the error carrying m exactly when m, with
\* its promotion, is not among legal_moves(p), and apply_move(p, m) otherwise; p, still
\* in board, is the position it was called on
C8_ValidateAndApplyMove ==
    result # NoResult =>
        LET ms == legal_moves(board)
        IN  IF move \in {ms[k] : k \in 1..Len(ms)}
            THEN result = Ok(apply_move(board, move))
            ELSE result = IlegalMove(move)

\* a legal pawn move asked for with a promotion was refused
C8_Witness ==
    /\ result = IlegalMove(move)
    /\ move.promotion = "Queen"
    /\ \E k \in 1..Len(legal_moves(board)) :
           /\ legal_moves(board)[k].from = move.from
           /\ legal_moves(board)[k].to = move.to

\* the keys that belong to a placement, a side to move, castling rights and a target
KeysOf(ps, side, castling, target) ==
    (IF side = "Black" THEN zobrist_side ELSE EMPTY)
    \cup UNION {zobrist_castling(x[1], x[2]) : x \in {y \in Colors \X CastlingSides : castling[y[1]][y[2]]}}
    \cup (IF target # None THEN zobrist_en_passant(target) ELSE EMPTY)
    \cup UNION {zobrist_pieces(x[1], x[2], x[3]) :
                    x \in {y \in Colors \X Pieces \X ALL_FIELDS : y[3] \in ps[y[1]][y[2]]}}

\* C9: the hash of the position a game is at is the XOR of the side key when Black is
\* to move, the castling key of each right that is true, the en-passant key of the
\* target and the piece-square key of every occupied square: a value fixed by these
\* four, whatever the moves that led there and whatever the two clocks
C9_HashIsXorOfKeys ==
    zobrist_hash(board) = KeysOf(board.pieces, board.next_move, board.castling_options,
                                 board.en_passant_target)

\* the same two king moves from the same placement at move 1 and at move 30
C9_Transposed ==
    apply_move(apply_move(from_fen(FenPromotion).board, new_move(E1, D1, NoPiece)),
               new_move(E8, D8, NoPiece))

\* the game that started at move 30 is where the other one is, with other clocks, and
\* the hashes are the same
C9_Witness ==
    /\ ply = 2
    /\ board.pieces = C9_Transposed.pieces
    /\ board.next_move = C9_Transposed.next_move
    /\ board.full_move_number # C9_Transposed.full_move_number
    /\ board.half_move_clock # C9_Transposed.half_move_clock
    /\ zobrist_hash(board) = zobrist_hash(C9_Transposed)

\* C10: to_fen(from_fen(s)) = s for a six-field FEN string s
C10_FenRoundTrip == out # <<>> => out = fen

\* the n-th field of a string whose fields are separated by single spaces
FenField(chars, n) ==
    LET spaces == {i \in 1 .. Len(chars) : chars[i] = " "}
        before(i) == Cardinality({j \in spaces : j < i})
        lo == IF n = 1 THEN 0 ELSE CHOOSE i \in spaces : before(i) = n - 2
        hi == IF \E i \in spaces : before(i) = n - 1
              THEN CHOOSE i \in spaces : before(i) = n - 1
              ELSE Len(chars) + 1
    IN  SubSeq(chars, lo + 1, hi - 1)

\* C11: after from_fen on a FEN with a castling field, a castling flag is true only if
\* its letter occurs in the field and the king and rook concerned are on their home
\* squares; in particular the field "-" leaves all four flags false
C11_CastlingFieldIsRead ==
    (parsed.ok /\ out = <<>>) =>
        \A c \in Colors, s \in CastlingSides :
            parsed.board.castling_options[c][s] =>
                /\ \E k \in 1 .. Len(FenField(fen, 3)) : FenField(fen, 3)[k] = piece_to_char(s, c)
                /\ has_bit(parsed.board.pieces[c]["King"], IF c = "White" THEN E1 ELSE E8)
                /\ has_bit(parsed.board.pieces[c]["Rook"],
                           IF c = "White" THEN (IF s = "King" THEN H1 ELSE A1)
                           ELSE (IF s = "King" THEN H8 ELSE A8))

\* the move is a pawn's and its to square is two ranks from its from square
TwoRankAdvance(p, m) ==
    /\ piece_at(p, m.from)[2] = "Pawn"
    /\ rank(m.to) - rank(m.from) \in {2, -2}

\* C12: after apply_move on a pseudo-legal move, en_passant_target is set exactly when
\* the move was a pawn advancing two ranks, and then it is the square between from and
\* to (rank 3 after a White push, rank 6 after a Black push); a target present before
\* is gone. Among pseudo-legal pawn moves, distance > 10 holds exactly of these advances.
C12_EnPassantTargetAfterMove ==
    (result # NoResult /\ result.ok) =>
        LET two == TwoRankAdvance(board, move)
            target == result.board.en_passant_target
        IN  /\ target # None <=> two
            /\ two => /\ file(target) = file(move.from)
                      /\ 2 * rank(target) = rank(move.from) + rank(move.to)
                      /\ rank(target) = (IF board.next_move = "White" THEN 2 ELSE 5)
            /\ piece_at(board, move.from)[2] = "Pawn" =>
                   (distance_to(move.to, move.from) > 10 <=> two)

\* a double step has been applied in a position that had a target of its own
C12_Witness ==
    /\ result # NoResult
    /\ result.ok
    /\ TwoRankAdvance(board, move)
    /\ board.en_passant_target # None
    /\ result.board.en_passant_target # board.en_passant_target

\* a pawn on from, of the side to move, attacks the square t diagonally
PawnAttacks(p, from, t) ==
    /\ piece_at(p, from) = <<p.next_move, "Pawn">>
    /\ file(t) - file(from) \in {1, -1}
    /\ rank(t) - rank(from) = (IF p.next_move = "White" THEN 1 ELSE -1)

\* the square directly behind t as the side to move of p sees it
BehindTarget(p, t) == IF p.next_move = "White" THEN t - 8 ELSE t + 8

\* the position after 1. e4 a6 2. e5 d5
AfterD7D5 ==
    apply_move(from_fen(FenAdvance).board,
               new_move(index_from_string(<<"d", "7">>), index_from_string(<<"d", "5">>), NoPiece))

E5D6 == new_move(index_from_string(<<"e", "5">>), index_from_string(<<"d", "6">>), NoPiece)

\* C13: when the position has an en-passant target T and a pawn of the side to move
\* attacks T diagonally, the move pawn -> T is among the pseudo-legal moves (and after
\* 1. e4 a6 2. e5 d5 the move e5d6 is legal); applying it puts the pawn on T and removes
\* exactly one other piece, the opposing pawn on the square directly behind T
C13_EnPassantCapture ==
    /\ (result = NoResult /\ board.en_passant_target # None) =>
           \A ms \in {moves(board)} :
               \A from \in ALL_FIELDS :
                   PawnAttacks(board, from, board.en_passant_target) =>
                       \E k \in 1 .. Len(ms) :
                           ms[k] = new_move(from, board.en_passant_target, NoPiece)
    /\ (result = NoResult /\ board = AfterD7D5) =>
           \E ms \in {legal_moves(board)} : \E k \in 1 .. Len(ms) : ms[k] = E5D6
    /\ (result # NoResult /\ result.ok /\ board.en_passant_target # None
        /\ PawnAttacks(board, move.from, board.en_passant_target)
        /\ move.to = board.en_passant_target) =>
           LET t == board.en_passant_target
               behind == BehindTarget(board, t)
               us == board.next_move
               them == opponent(us)
               q == result.board
           IN  /\ piece_at(board, behind) = <<them, "Pawn">>
               /\ piece_at(q, t) = <<us, "Pawn">>
               /\ q.pieces[us] = [board.pieces[us] EXCEPT
                                     !["Pawn"] = (@ \ {move.from}) \cup {t}]
               /\ q.pieces[them] = [board.pieces[them] EXCEPT !["Pawn"] = @ \ {behind}]
               /\ Cardinality(all_pieces(q)) = Cardinality(all_pieces(board)) - 1

\* White has taken en passant with e5d6 after 1. e4 a6 2. e5 d5
C13_Witness ==
    /\ result # NoResult
    /\ result.ok
    /\ board = AfterD7D5
    /\ move = E5D6
    /\ piece_at(result.board, index_from_string(<<"d", "5">>)) = NoEntry

Sign(n) == IF n > 0 THEN 1 ELSE IF n < 0 THEN -1 ELSE 0

Abs(n) == IF n < 0 THEN -n ELSE n

\* the squares strictly between a and b when they share a rank, a file or a diagonal
Between(a, b) ==
    LET dx == file(b) - file(a)
        dy == rank(b) - rank(a)
        n == IF Abs(dx) > Abs(dy) THEN Abs(dx) ELSE Abs(dy)
    IN  {from_rank_and_file(rank(a) + k * Sign(dy), file(a) + k * Sign(dx)) : k \in 1 .. n - 1}

\* by the rules of chess: a piece of colour c standing on from attacks the square sq
PieceAttacks(p, c, from, sq) ==
    LET dx == file(sq) - file(from)
        dy == rank(sq) - rank(from)
        clear == Between(from, sq) \cap all_pieces(p) = {}
        straight == (dx = 0 \/ dy = 0) /\ clear
        diagonal == Abs(dx) = Abs(dy) /\ clear
    IN  /\ from # sq
        /\ \/ from \in p.pieces[c]["Knight"] /\ {Abs(dx), Abs(dy)} = {1, 2}
           \/ from \in p.pieces[c]["King"] /\ Abs(dx) <= 1 /\ Abs(dy) <= 1
           \/ from \in p.pieces[c]["Pawn"] /\ Abs(dx) = 1
              /\ dy = (IF c = "White" THEN 1 ELSE -1)
           \/ from \in p.pieces[c]["Rook"] /\ straight
           \/ from \in p.pieces[c]["Bishop"] /\ diagonal
           \/ from \in p.pieces[c]["Queen"] /\ (straight \/ diagonal)

Attacked(p, c, sq) == \E from \in ALL_FIELDS : PieceAttacks(p, c, from, sq)

\* the conditions of castling for the side to move: flag, empty squares between king
\* and rook, no square of the king's path attacked
MayCastle(p, side) ==
    LET r == IF p.next_move = "White" THEN 0 ELSE 7
        between == IF side = "King" THEN {5, 6} ELSE {1, 2, 3}
        path == IF side = "King" THEN {4, 5, 6} ELSE {2, 3, 4}
    IN  /\ p.castling_options[p.next_move][side]
        /\ \A f \in between : from_rank_and_file(r, f) \notin all_pieces(p)
        /\ \A f \in path : ~Attacked(p, opponent(p.next_move), from_rank_and_file(r, f))

\* the king's move from the e-file to the g-file or c-file of its home rank
CastlingMoveOf(p, side) ==
    LET r == IF p.next_move = "White" THEN 0 ELSE 7
    IN  new_move(from_rank_and_file(r, 4), from_rank_and_file(r, IF side = "King" THEN 6 ELSE 2),
                 NoPiece)

LastRank(p) == IF p.next_move = "White" THEN 7 ELSE 0

\* a move of the side to move's pawn onto its last rank
PromotingMove(p, m) ==
    /\ m.from \in p.pieces[p.next_move]["Pawn"]
    /\ rank(m.to) = LastRank(p)

\* by the rules of chess: the pawn on from can step or capture to the square to
PawnReaches(p, from, to) ==
    LET dy == IF p.next_move = "White" THEN 1 ELSE -1
    IN  /\ from \in p.pieces[p.next_move]["Pawn"]
        /\ rank(to) - rank(from) = dy
        /\ \/ file(to) = file(from) /\ to \notin all_pieces(p)
           \/ file(to) - file(from) \in {1, -1} /\ to \in opponent_pieces(p)

PromotionOrder == <<"Bishop", "Knight", "Queen", "Rook">>

\* C15: every pawn move onto the last rank, by a step or a capture, is emitted as
\* exactly four moves promoting to Bishop, Knight, Queen, Rook in that order and never
\* without a promotion; after one is applied the destination holds the promoted piece of
\* the mover's colour and nothing else, no pawn, and a captured piece is gone
C15_Promotions ==
    /\ result = NoResult =>
           \A ms \in {moves(board)} :
               /\ \A from, to \in ALL_FIELDS :
                      (PawnReaches(board, from, to) /\ rank(to) = LastRank(board)) =>
                          \E k \in 1 .. Len(ms) : ms[k].from = from /\ ms[k].to = to
               /\ \A k \in 1 .. Len(ms) :
                      PromotingMove(board, ms[k]) =>
                          LET same == {j \in 1 .. Len(ms) :
                                           ms[j].from = ms[k].from /\ ms[j].to = ms[k].to}
                              first == CHOOSE j \in same : \A i \in same : j <= i
                          IN  /\ same = first .. first + 3
                              /\ \A n \in 1 .. 4 : ms[first + n - 1].promotion = PromotionOrder[n]
    /\ (result # NoResult /\ result.ok /\ PromotingMove(board, move)
        /\ move.promotion # NoPiece) =>
           LET us == board.next_move
               them == opponent(us)
               q == result.board
           IN  /\ piece_at(q, move.to) = <<us, move.promotion>>
               /\ \A c \in Colors, k \in Pieces :
                      move.to \in q.pieces[c][k] <=> (c = us /\ k = move.promotion)
               /\ move.from \notin all_pieces(q)
               /\ \A k \in Pieces : q.pieces[them][k] = board.pieces[them][k] \ {move.to}
               /\ \A k \in Pieces \ {"Pawn", move.promotion} :
                      q.pieces[us][k] = board.pieces[us][k]

\* a pawn has taken a piece on the last rank and become a knight
C15_Witness ==
    /\ result # NoResult
    /\ result.ok
    /\ PromotingMove(board, move)
    /\ move.promotion = "Knight"
    /\ move.to \in opponent_pieces(board)
    /\ move.to \in result.board.pieces[board.next_move]["Knight"]

\* C16: the full-move number is 1 in a position built without one, and apply_move adds
\* exactly 1 to it after a Black ply (the new side to move is White) and leaves it as it
\* is after a White ply
C16_FullMoveNumber ==
    (result # NoResult /\ result.ok) =>
        result.board.full_move_number =
            board.full_move_number + (IF board.next_move = "Black" THEN 1 ELSE 0)

\* C17: after apply_move(p, m) the half-move clock is 0 when m is a pawn move (step,
\* double step, promotion, en-passant capture) or a capture by any piece, and p's clock
\* plus 1 in every other case, castling included
C17_HalfMoveClock ==
    (result # NoResult /\ result.ok) =>
        LET pawn == move.from \in board.pieces[board.next_move]["Pawn"]
            capture == move.to \in pieces_of(board, opponent(board.next_move))
        IN  result.board.half_move_clock =
                (IF pawn \/ capture THEN 0 ELSE board.half_move_clock + 1)

\* a king has castled in a position whose clock was running, and the clock went on
C17_Witness ==
    /\ result # NoResult
    /\ result.ok
    /\ move.from \in board.pieces[board.next_move]["King"]
    /\ file(move.to) - file(move.from) \in {2, -2}
    /\ board.half_move_clock > 0
    /\ result.board.half_move_clock = board.half_move_clock + 1

\* the kind of the piece of the side to move that m moves
MovedKind(p, m) == CHOOSE k \in Pieces : m.from \in p.pieces[p.next_move][k]

\* the generator a move comes from: 1 rank/file moves of rooks and queens, 2 diagonal
\* moves of bishops and queens, 3 pawns, 4 knights, 5 king
MoveGroup(p, m) ==
    LET k == MovedKind(p, m)
        straight == file(m.from) = file(m.to) \/ rank(m.from) = rank(m.to)
    IN  CASE k = "Rook" -> 1
          [] k = "Queen" -> IF straight THEN 1 ELSE 2
          [] k = "Bishop" -> 2
          [] k = "Pawn" -> 3
          [] k = "Knight" -> 4
          [] k = "King" -> 5

\* C18 as stated: the groups come in the order rook/queen lines, bishop/queen diagonals,
\* pawns, knights, king; within one piece kind the from squares ascend; for one from
\* square the destinations ascend, a pawn's en-passant destination included
C18_MoveOrderAscending ==
    result = NoResult =>
        \A ms \in {moves(board)} :
            \A i, j \in 1 .. Len(ms) :
                i < j =>
                    /\ MoveGroup(board, ms[i]) <= MoveGroup(board, ms[j])
                    /\ (MoveGroup(board, ms[i]) = MoveGroup(board, ms[j])
                        /\ MovedKind(board, ms[i]) = MovedKind(board, ms[j])) =>
                           ms[i].from <= ms[j].from
                    /\ (MoveGroup(board, ms[i]) = MoveGroup(board, ms[j])
                        /\ ms[i].from = ms[j].from) => ms[i].to <= ms[j].to

\* an en-passant capture, or a castling move: emitted after the other moves of the piece
LateMove(p, m) ==
    \/ MovedKind(p, m) = "Pawn" /\ p.en_passant_target # None /\ m.to = p.en_passant_target
    \/ MovedKind(p, m) = "King" /\ file(m.to) - file(m.from) \in {2, -2}

\* the place of a move in the emission order: generator, then rook or bishop before
\* queen, then from square, then ordinary moves by destination before the late ones,
\* then king-side castling before queen-side
MoveOrderKey(p, m) ==
    LET late == LateMove(p, m)
        dest == IF late /\ MovedKind(p, m) = "King"
                THEN (IF file(m.to) > file(m.from) THEN 0 ELSE 1)
                ELSE m.to
    IN  (((MoveGroup(p, m) * 2 + (IF MovedKind(p, m) = "Queen" THEN 1 ELSE 0)) * 64 + m.from) * 2
         + (IF late THEN 1 ELSE 0)) * 64 + dest

\* C18, amended: as stated, except that within a generator the rooks (bishops) come
\* before the queens, a pawn's en-passant capture comes after its other moves, and the
\* king's castling moves come after its other moves, king-side first
C18_MoveOrder ==
    result = NoResult =>
        \A ms \in {moves(board)} :
            \A i \in 1 .. Len(ms) - 1 :
                MoveOrderKey(board, ms[i]) <= MoveOrderKey(board, ms[i + 1])

\* a pawn's step is emitted ahead of its en-passant capture to a lower square, and a
\* knight's move after it
C18_Witness ==
    /\ result = NoResult
    /\ board.en_passant_target # None
    /\ \E ms \in {moves(board)} :
           \E i \in 1 .. Len(ms) - 2 :
               /\ MovedKind(board, ms[i]) = "Pawn"
               /\ ms[i + 1].from = ms[i].from
               /\ ms[i + 1].to = board.en_passant_target
               /\ ms[i + 1].to < ms[i].to
               /\ MovedKind(board, ms[i + 2]) = "Knight"

\* a file a-h followed by a rank 1-8
SquareText(s) ==
    /\ Len(s) = 2
    /\ s[1] \in {"a", "b", "c", "d", "e", "f", "g", "h"}
    /\ s[2] \in {"1", "2", "3", "4", "5", "6", "7", "8"}

\* four or five characters: a from square, a to square, then at most one promotion letter
MoveText(s) ==
    /\ Len(s) \in {4, 5}
    /\ SquareText(SubSeq(s, 1, 2))
    /\ SquareText(SubSeq(s, 3, 4))
    /\ Len(s) = 5 => s[5] \in {"q", "r", "b", "n"}

\* C19: Move::from_string returns an error for every string whose length is not 4 or 5,
\* whose from or to square is not a file a-h followed by a rank 1-8, or whose fifth
\* character is not one of the promotion letters q, r, b, n; and for every accepted
\* lowercase string s, to_string(from_string(s)) = s
C19_MoveFromString ==
    /\ (parsed_move.called /\ ~MoveText(text)) => ~parsed_move.ok
    /\ (parsed_move.ok /\ shown # <<>>) => shown = text

\* at most one king of each colour
AtMostOneKing(p) == \A c \in Colors : Cardinality(p.pieces[c]["King"]) <= 1

\* C20: in a position with at most one king per colour, is_opponent_king_under_check
\* is true exactly when the king of the side not to move stands on a square of
\* attacks(p, side to move), that is, on a square a piece of the side to move attacks;
\* with that king absent it is false
C20_CheckIsAttackOnKing ==
    (result = NoResult /\ AtMostOneKing(board)) =>
        LET king == board.pieces[opponent(board.next_move)]["King"]
        IN  /\ is_opponent_king_under_check(board)
                   <=> (king \cap attacks(board, board.next_move) # {})
            /\ is_opponent_king_under_check(board)
                   <=> (\E sq \in king : Attacked(board, board.next_move, sq))
            /\ king = {} => ~is_opponent_king_under_check(board)

\* the king of the side not to move is attacked by a pawn and by nothing else
C20_Witness ==
    /\ result = NoResult
    /\ AtMostOneKing(board)
    /\ is_opponent_king_under_check(board)
    /\ \A sq \in board.pieces[opponent(board.next_move)]["King"] :
           \A from \in ALL_FIELDS :
               PieceAttacks(board, board.next_move, from, sq) =>
                   from \in board.pieces[board.next_move]["Pawn"]

\* the king of the side not to move has been taken
C20_KingAbsent ==
    /\ result = NoResult
    /\ board.pieces[opponent(board.next_move)]["King"] = {}

\* the home rank of the side to move
HomeRank(p) == IF p.next_move = "White" THEN 0 ELSE 7

\* the move about to be applied takes the mover's king from its starting square to the
\* c-file or the g-file of its rank
CastlingApplied ==
    /\ result # NoResult
    /\ result.ok
    /\ piece_at(board, move.from) = <<board.next_move, "King">>
    /\ move.from = HomeRank(board) * 8 + 4
    /\ move.to \in {HomeRank(board) * 8 + 2, HomeRank(board) * 8 + 6}

\* C26: a castling move puts the king two files away, the mover's rook from the h-file
\* to the f-file (king-side) or from the a-file to the d-file (queen-side) on the same
\* rank, clears both castling flags of the mover and keeps the opponent's; any other
\* king move leaves the mover's rooks where they were
C26_CastlingApplied ==
    (result # NoResult /\ result.ok /\ piece_at(board, move.from)[2] = "King") =>
        LET c == board.next_move
            r == HomeRank(board)
            short == move.to = r * 8 + 6
            rook_from == IF short THEN r * 8 + 7 ELSE r * 8
            rook_to == IF short THEN r * 8 + 5 ELSE r * 8 + 3
        IN  IF CastlingApplied
            THEN /\ result.board.pieces[c]["King"] = {move.to}
                 /\ Abs(file(move.to) - file(move.from)) = 2
                 /\ rook_from \in board.pieces[c]["Rook"]
                 /\ result.board.pieces[c]["Rook"] =
                        (board.pieces[c]["Rook"] \ {rook_from}) \cup {rook_to}
                 /\ result.board.piece_cache[rook_to] = <<c, "Rook">>
                 /\ result.board.piece_cache[rook_from] = NoEntry
                 /\ \A s \in CastlingSides : ~result.board.castling_options[c][s]
                 /\ result.board.castling_options[opponent(c)]
                        = board.castling_options[opponent(c)]
            ELSE result.board.pieces[c]["Rook"] = board.pieces[c]["Rook"]

\* queen-side castling has been applied
C26_Witness ==
    /\ CastlingApplied
    /\ file(move.to) = 2
    /\ result.board.pieces[board.next_move]["Rook"] # board.pieces[board.next_move]["Rook"]

\* king-side castling has been applied
C26_WitnessShort ==
    /\ CastlingApplied
    /\ file(move.to) = 6

\* a king beside its starting square has stepped to the c-file or the g-file of its rank
C26_KingStepsAside ==
    /\ result # NoResult
    /\ result.ok
    /\ piece_at(board, move.from)[2] = "King"
    /\ move.from # HomeRank(board) * 8 + 4
    /\ move.to \in {HomeRank(board) * 8 + 2, HomeRank(board) * 8 + 6}
    /\ board.pieces[board.next_move]["Rook"] # {}

\* the home corner of the rook that castles with the king of colour c on side s
RookCorner(c, s) ==
    (IF c = "White" THEN 0 ELSE 56) + (IF s = "King" THEN 7 ELSE 0)

\* C28: apply_move never sets a castling flag that was false, and it clears a flag only
\* when the mover's king moves, when the mover's rook leaves the corner of that flag, or
\* when the mover captures on the opponent's corner of that flag
C28_CastlingMonotone ==
    (result # NoResult /\ result.ok) =>
        \A c \in Colors, s \in CastlingSides :
            LET before == board.castling_options[c][s]
                after == result.board.castling_options[c][s]
                piece == piece_at(board, move.from)[2]
                mine == c = board.next_move
            IN  /\ ~before => ~after
                /\ (before /\ ~after) =>
                       \/ mine /\ piece = "King"
                       \/ mine /\ piece = "Rook" /\ move.from = RookCorner(c, s)
                       \/ ~mine /\ move.to \in pieces_of(board, c) /\ move.to = RookCorner(c, s)

\* a capture on a rook's corner has cleared the flag of the side that did not move
C28_Witness ==
    /\ result # NoResult
    /\ result.ok
    /\ \E s \in CastlingSides :
           /\ board.castling_options[opponent(board.next_move)][s]
           /\ ~result.board.castling_options[opponent(board.next_move)][s]

\* a rook has left its corner with both flags of its side set: one of them stays
C28_RookLeavesCorner ==
    /\ result # NoResult
    /\ result.ok
    /\ piece_at(board, move.from)[2] = "Rook"
    /\ \A s \in CastlingSides : board.castling_options[board.next_move][s]
    /\ \E s \in CastlingSides : result.board.castling_options[board.next_move][s]
    /\ \E s \in CastlingSides : ~result.board.castling_options[board.next_move][s]

\* the pieces standing on a square
Occupants(p, sq) == {x \in Colors \X Pieces : sq \in p.pieces[x[1]][x[2]]}

\* the number of pieces on the board
PieceCount(p) ==
    Cardinality({x \in Colors \X Pieces \X ALL_FIELDS : x[3] \in p.pieces[x[1]][x[2]]})

\* the move about to be applied is a pawn's step onto the en-passant target
EnPassantApplied ==
    /\ piece_at(board, move.from)[2] = "Pawn"
    /\ board.en_passant_target # None
    /\ move.to = board.en_passant_target

\* the squares the move about to be applied may change
Touched ==
    {move.from, move.to}
        \cup (IF EnPassantApplied THEN {BehindTarget(board, move.to)} ELSE {})
        \cup (IF CastlingApplied
              THEN {HomeRank(board) * 8 + (IF file(move.to) = 6 THEN 7 ELSE 0),
                    HomeRank(board) * 8 + (IF file(move.to) = 6 THEN 5 ELSE 3)}
              ELSE {})

\* what apply_move returned, compared with the position it was called on
FrameOfApplyMove ==
    (result # NoResult /\ result.ok) =>
        /\ \A sq \in ALL_FIELDS \ Touched :
               /\ Occupants(result.board, sq) = Occupants(board, sq)
               /\ result.board.piece_cache[sq] = board.piece_cache[sq]
        /\ result.board.next_move = opponent(board.next_move)
        /\ PieceCount(result.board) =
               IF move.to \in opponent_pieces(board) \/ EnPassantApplied
               THEN PieceCount(board) - 1
               ELSE PieceCount(board)

\* C30: apply_move returns a new position and leaves the one it was called on as it
\* was; outside m.from, m.to, the en-passant victim's square and the castling rook's two
\* squares every square keeps its occupant, the side to move is the other one, and the
\* number of pieces drops by one for a capture or an en-passant capture and by none
\* otherwise
C30_ApplyMoveFrame ==
    /\ []FrameOfApplyMove
    /\ [][(result = NoResult /\ result' # NoResult) => board' = board]_vars

\* an en-passant capture has been applied: a third square has changed
C30_Witness ==
    /\ result # NoResult
    /\ result.ok
    /\ EnPassantApplied
    /\ Occupants(result.board, BehindTarget(board, move.to)) = {}
    /\ Occupants(board, BehindTarget(board, move.to)) # {}
    /\ PieceCount(result.board) = PieceCount(board) - 1

\* C29: in the standard opening, in the other positions games start from, and in every
\* position a successful validate_and_apply_move leads to from them,
\* is_opponent_king_under_check is false, no piece of the side to move attacks the king
\* of the side that has just moved, and each colour has exactly one king
C29_NoKingLeftInCheck ==
    result = NoResult =>
        /\ ~is_opponent_king_under_check(board)
        /\ \A c \in Colors : Cardinality(board.pieces[c]["King"]) = 1
        /\ \A sq \in board.pieces[opponent(board.next_move)]["King"] :
               ~Attacked(board, board.next_move, sq)

\* after a successful call, a pseudo-legal move that leaves the mover's king attacked
\* has been refused
C29_Witness ==
    /\ ply >= 1
    /\ result # NoResult
    /\ ~result.ok
    /\ \E ms \in {moves(board)} : \E k \in 1 .. Len(ms) : ms[k] = move
    /\ is_opponent_king_under_check(apply_move(board, move))

\* the frame of perft1(p, 1) when its closure runs: the opponent's attacks and is_check
FrameAtDepthOne(p) == loop_frame(new_frame(p, 1), zobrist_hash(p))

\* the king of the side that moves in p is attacked once m is made
MoverKingAttackedAfter(p, m) ==
    LET q == apply_move(p, m)
    IN  \E sq \in q.pieces[p.next_move]["King"] : Attacked(q, q.next_move, sq)

\* C21: in a position reached by legal moves, a pseudo-legal move that perft1 does not
\* validate (not a king move, not an en-passant capture, the side to move not in check,
\* the piece on a square the opponent does not attack) never leaves the mover's king
\* attacked, and the moves perft1 counts at depth 1 are as many as legal_moves lists
C21_SelectiveFilter ==
    result = NoResult =>
        \A f \in {FrameAtDepthOne(board)} :
            /\ \A k \in 1 .. Len(f.ms) :
                   ~need_to_validate(f, f.ms[k]) =>
                       /\ ~MoverKingAttackedAfter(board, f.ms[k])
                       /\ ~is_opponent_king_under_check(apply_move(board, f.ms[k]))
            /\ Cardinality({k \in 1 .. Len(f.ms) : accepts(f, f.ms[k])})
                   = Len(legal_moves(board))

\* a piece other than the king that shields its king stands on an attacked square: its
\* move is validated and refused, while other moves of the position pass unvalidated
C21_Witness ==
    /\ result = NoResult
    /\ ply >= 1
    /\ \E f \in {FrameAtDepthOne(board)} :
           /\ ~f.is_check
           /\ \E k \in 1 .. Len(f.ms) :
                  /\ piece_at(board, f.ms[k].from)[2] # "King"
                  /\ has_bit(f.attacks, f.ms[k].from)
                  /\ ~accepts(f, f.ms[k])
           /\ \E k \in 1 .. Len(f.ms) : ~need_to_validate(f, f.ms[k])

\* the squares reached from s along the given steps, walking outward one square at a
\* time up to and including the first square of b
Reached(s, b, straight) ==
    {t \in ALL_FIELDS \ {s} :
        /\ IF straight
           THEN file(t) = file(s) \/ rank(t) = rank(s)
           ELSE Abs(file(t) - file(s)) = Abs(rank(t) - rank(s))
        /\ Between(s, t) \cap b = {}}

\* the four table indices the lookups compute for square i and occupancy b
MagicIndices(i, b) ==
    << index_shr(b \cap rank_mask[i], rank_shift[i]),
       magic_index(wrapping_mul(b \cap file_mask[i], file_magic[i])),
       magic_index(wrapping_mul(b \cap a1h8_mask[i], a1h8_magic[i])),
       magic_index(wrapping_mul(b \cap a8h1_mask[i], a8h1_magic[i])) >>

\* C27: with the multiplication taken modulo 2^64, the rank, file and two diagonal table
\* indices of every square and occupancy lie in 0..63; the rook lookup returns the
\* squares of the rank and file walked outward from the square up to and including the
\* first occupied one, and the bishop lookup the same on the two diagonals
C27_MagicLookups ==
    /\ square # None =>
           \A k \in 1 .. 4 : MagicIndices(square, occupancy)[k] \in 0 .. 63
    /\ lookup.by = "rook" => lookup.attacks = Reached(square, occupancy, TRUE)
    /\ lookup.by = "bishop" => lookup.attacks = Reached(square, occupancy, FALSE)

\* a rook in the middle of the board, blocked on its way in three directions, one of
\* the blockers on the far side of another
C27_Witness ==
    /\ lookup.by = "rook"
    /\ square = 27
    /\ {25, 26, 43} \subseteq occupancy
    /\ 35 \notin occupancy
    /\ lookup.attacks \cap {24, 25, 26, 35, 43, 51} = {26, 35, 43}

\* a bishop blocked on one of its diagonals
C27_WitnessBishop ==
    /\ lookup.by = "bishop"
    /\ square = 27
    /\ 45 \in occupancy
    /\ 36 \notin occupancy
    /\ lookup.attacks \cap {36, 45, 54} = {36, 45}

\* C23: get and set address the slot of the hash's low bits; set overwrites the slot
\* whatever it held; get returns Some(c) exactly when the last set on the slot stored
\* the hash and the depth asked for, c being the count stored with them, and None
\* otherwise: when only the hash or only the depth matches, and on a slot never set for
\* every depth other than 0
C23_CacheGetAndSet ==
    /\ recent # <<>> =>
           \A i \in 0 .. cache.size - 1 :
               cache.cache[i] = IF recent[i] = <<>> THEN PerfTCacheEntry_new
                                ELSE [hash |-> recent[i][1], depth |-> recent[i][2],
                                      count |-> recent[i][3]]
    /\ query.called =>
           IF query.last = <<>>
           THEN query.depth # 0 => query.returned = <<>>
           ELSE query.returned =
                    IF query.last[1] = query.hash /\ query.last[2] = query.depth
                    THEN Some(query.last[3])
                    ELSE <<>>

\* a slot has been overwritten by a set of another hash at the same depth, and a get of
\* the first hash at that depth returns None
C23_Witness ==
    /\ query.called
    /\ query.returned = <<>>
    /\ query.last # <<>>
    /\ query.last[1] # query.hash
    /\ query.last[2] = query.depth
    /\ cache.size > 1

\* a get returns the count stored with its hash and depth
C23_Hit ==
    /\ query.called
    /\ query.returned = Some(20)

\* only the hash matches: None
C23_DepthDiffers ==
    /\ query.called
    /\ query.returned = <<>>
    /\ query.last # <<>>
    /\ query.last[1] = query.hash

\* the frames of every thread
Frames == UNION {{threads[t].stack[i] : i \in 1 .. Len(threads[t].stack)} : t \in DOMAIN threads}

\* C22: in every interleaving of the workers' steps inside get and set, a count that
\* get returns for (h, d) was stored with h and d by one call of set, never pieced
\* together from two; and whenever perft1 calls set for the position p it evaluates at
\* depth d, the triple is (hash(p), d, perft(p, d))
C22_NoTornEntry ==
    \A f \in Frames :
        /\ f.at = "got" =>
               /\ <<f.hash, f.depth, f.count>> \in stored
               /\ f.hash = zobrist_hash(f.board)
               /\ f.count = Recurrence(f.board, f.depth)
        /\ f.at \in InSet =>
               /\ <<f.hash, f.depth, f.count>> \in stored
               /\ f.hash = zobrist_hash(f.board)
               /\ f.count = Recurrence(f.board, f.depth)

\* a worker has been handed a count by get while another worker is inside set on the
\* same slot
C22_Witness ==
    \E t \in DOMAIN threads, u \in DOMAIN threads :
        /\ t # 0 /\ u # 0 /\ t # u
        /\ running(t) /\ running(u)
        /\ top(t).at = "got"
        /\ top(u).at \in InSet
        /\ cache_index(cache, top(t).hash) = cache_index(cache, top(u).hash)
        /\ top(t).count # top(u).count

\* the slots whose Mutex thread t holds
Held(t) == {i \in DOMAIN locks : locks[i] = t}

\* a thread holds a lock only between lock() and the end of the guard inside get or
\* set, and then only the lock of the slot of the hash it asked for
LockDiscipline ==
    /\ \A i \in DOMAIN locks : locks[i] # None => locks[i] \in DOMAIN threads
    /\ \A t \in DOMAIN threads :
           /\ Cardinality(Held(t)) <= 1
           /\ Held(t) # {} =>
                  /\ running(t)
                  /\ top(t).at \in InGet \cup InSet
                  /\ Held(t) = {cache_index(cache, top(t).hash)}
           /\ \A i \in 1 .. Len(threads[t].stack) - 1 : threads[t].stack[i].at = "loop"

\* C24: a thread holds at most one slot lock, only between lock() and the end of the
\* guard inside get or set, where its next step needs no lock; it holds none while
\* perft1 generates moves, applies one, recurses or waits at lock(), and the frames
\* below the running one, suspended in the recursion, hold none; the holder of a lock
\* can always take its next step, so that the threads waiting for the slot get it
C24_LocksHeldBriefly ==
    /\ LockDiscipline
    /\ \A i \in DOMAIN locks : locks[i] # None => ENABLED GuardedStep(locks[i])

\* a worker waits at lock() for the slot another worker holds inside set
C24_Witness ==
    \E t \in DOMAIN threads, u \in DOMAIN threads :
        /\ t # 0 /\ u # 0 /\ t # u
        /\ running(t) /\ running(u)
        /\ top(t).at \in InSet
        /\ Held(t) # {}
        /\ top(u).at = "get"
        /\ cache_index(cache, top(u).hash) \in Held(t)

\* the workers of perft_n that have sent their count and ended
WorkersDone == {t \in DOMAIN threads \ {0} : threads[t].state = "done"}

\* perft_n is between the creation of the channel and its return
InPerftN == args.entry = "perft_n" /\ pc \in {"scope", "joined"}

\* some thread of perft_n, a worker or the caller, can take its next step
PerftNCanStep == ENABLED ((\E t \in DOMAIN threads : ThreadStep(t)) \/ ScopeStep)

\* C25: perft_n spawns exactly one worker per legal root move, each worker sends exactly
\* one count on the channel, every worker has ended before the counts are summed, and
\* perft_n always returns (no worker panics, and until the return some thread can step;
\* the steps of one call are finitely many), with 0 when the root has no legal move
C25_PerftNJoinsAndReturns ==
    args.entry = "perft_n" =>
        /\ root = legal_moves(args.board)
        /\ pc # "panicked"
        /\ InPerftN =>
              /\ DOMAIN threads = 0 .. Len(root)
              /\ spawned <= Len(root)
              /\ \A t \in 1 .. Len(root) : threads[t].state = "none" <=> t > spawned
              /\ \A t \in 1 .. Len(root) : threads[t].state # "panicked"
              /\ Len(chan) = Cardinality(WorkersDone)
              /\ PerftNCanStep
        /\ pc = "joined" => spawned = Len(root) /\ WorkersDone = 1 .. Len(root)
        /\ (pc = "idle" /\ root = <<>>) => ret = 0

====
